---- MODULE Spec2Model ----
(***************************************************************************)
(* Commission creation and approval state machine, reporting lines and    *)
(* payout batch settlement engine of onesuite-backend                      *)
(* (commissions/services.py, commissions/approvals/services.py,            *)
(* hierarchy/views.py, payouts/services.py and the views that call them).  *)
(*                                                                         *)
(* The relational store is the shared state.  A request handler is a view  *)
(* that loads a row into memory (get_object_or_404 / get_object) and then  *)
(* calls a service under transaction.atomic; the service validates against *)
(* the in-memory copy and writes with Model.save() (every field of the     *)
(* in-memory copy) or QuerySet.update().  No handler takes a row lock      *)
(* before it validates (there is no select_for_update in the repository),  *)
(* so a handler may run its transaction on a copy that other handlers have *)
(* made stale.  One handler at a time is modelled split at that point      *)
(* (Load..., then Commit...); every handler can also run unsplit (Do...),  *)
(* which is the same code applied to the copy it has just loaded.  A       *)
(* transaction's writes become visible together when it commits, and are   *)
(* discarded together when an exception leaves the atomic block.           *)
(*                                                                         *)
(* Time (timezone.now()) is counted in PayoutBatch rows inserted so far:   *)
(* it orders approvals (Commission.approved_at) against batch creations    *)
(* (PayoutBatch.created_at).                                               *)
(*                                                                         *)
(* Spec runs the approval workflow from freshly created commissions;       *)
(* SpecPayout runs the settlement engine with every handler on a fresh     *)
(* copy; SpecRace runs it with one handler overtaken; SpecHierarchy runs   *)
(* the approval workflow while the reporting lines of a consultant change; *)
(* SpecCreate runs the commission creation service; SpecChain runs the     *)
(* dated reporting-line lookups; SpecCalc runs the commission arithmetic;  *)
(* SpecAdjust runs the approval workflow with adjustments; SpecPayment     *)
(* runs the payment transactions of released batches.                      *)
(***************************************************************************)
EXTENDS Integers, Sequences, FiniteSets, TLC

(***************************************************************************)
(* Bounds of the model.                                                    *)
(***************************************************************************)
MaxHistory == 4       \* ApprovalHistory rows written by the approval workflow
MaxBatches == 3       \* PayoutBatch rows that can be created
MaxRacingBatches == 2 \* PayoutBatch rows that can be created around an overtaken handler
MaxPayoutHistory == 4 \* PayoutHistory rows kept per batch
MaxOvertaken == 1     \* handlers per run that are overtaken between load and transaction
MaxNewCommissions == 5 \* Commission rows inserted after X, O and Y
MaxLines == 3         \* ReportingLine rows with dates that a chain is resolved on
MaxDate == 2          \* day numbers of start dates and transaction dates
MaxLevels == 3        \* greatest max_levels a chain is resolved with
MaxSale == 60         \* greatest sale amount, in cents, next to the two documented sales
MaxAdjustments == 1   \* adjustment commissions that can be created
MaxActual == 9        \* greatest actual amount reported to a reconciliation

(***************************************************************************)
(* Users, reporting lines and the commissions under study.                 *)
(***************************************************************************)
NoUser == "nobody"
Users == {"alice", "bob", "root", "fay"}

\* actor.is_staff or actor.groups.filter(name='Admins').exists()
is_admin(actor) == actor = "root"

\* actor.groups.filter(name='Finance').exists(): fay is in the Finance group,
\* is not staff and manages nobody
is_finance(actor) == actor = "fay"

\* ReportingLine rows with is_active=True when the commissions are created:
\* <<consultant, manager>>
ReportingLine == {<<"alice", "bob">>, <<"root", "bob">>}

Commissions == {"X", "O", "Y"}

\* X: base commission of alice; O: its level-1 override; Y: base commission
\* of root (created before root's reporting line started, so no override).
commission_type(c) == IF c = "O" THEN "override" ELSE "base"
consultant(c) == IF c = "Y" THEN "root" ELSE "alice"
manager(c) == IF c = "O" THEN "bob" ELSE NoUser
parent_commission(c) == IF c = "O" THEN "X" ELSE "none"
calculated_amount(c) == CASE c = "X" -> 5 [] c = "O" -> 1 [] c = "Y" -> 3

\* a null DateTimeField
NoTime == -1

STATE_CHOICES == {"draft", "submitted", "approved", "paid", "rejected"}

(***************************************************************************)
(* State.                                                                  *)
(***************************************************************************)
VARIABLES
    commission,          \* Commission rows: [state, approved_by, approved_at, paid_at];
                         \* paid_at names the call whose timezone.now() it holds
    approval,            \* CommissionApproval rows: [exists, assigned_approver]
    history,             \* ApprovalHistory rows per commission, oldest first
    batch,               \* PayoutBatch rows per batch id: [status, period, created_at,
                         \* released_at] (status "NONE": no row)
    payouts,             \* Payout rows
    lineItems,           \* PayoutLineItem rows
    payoutHistory,       \* PayoutHistory actions per batch, oldest first
    payment_transaction, \* PaymentTransaction rows, in insertion order (the id of a
                         \* row is its position)
    req,                 \* the handler that has loaded its row and not yet run
    overtaken,           \* how many handlers have been split so far
    now,                 \* timezone.now(), in PayoutBatch rows inserted so far
    reporting_line,      \* ReportingLine rows with is_active=True: <<consultant, manager>>
    new_commissions,     \* Commission rows inserted after X, O and Y, in insertion order
    dated_lines,         \* ReportingLine rows with their dates:
                         \* [consultant, manager, start_date, end_date], and
                         \* [id, is_active] too where the hierarchy views write them
    call,                \* the service call being applied to its inputs, and its result
    adjustments          \* Commission rows of type adjustment, in insertion order

commVars == <<commission, approval, history>>
payVars == <<batch, payouts, lineItems, payoutHistory, payment_transaction>>
reqVars == <<req, overtaken>>
hierVars == <<reporting_line>>
createVars == <<new_commissions>>
adjVars == <<adjustments>>
svcVars == <<dated_lines, call, adjVars>>
vars == <<commission, approval, history, batch, payouts, lineItems,
          payoutHistory, payment_transaction, req, overtaken, now, reporting_line,
          new_commissions, dated_lines, call,
          adjustments>>

BatchIds == 1..MaxBatches
\* no service call has been made
NoCall == [op |-> "none"]

Idle == [op |-> "none"]

\* The overtaken handler after its response: what it was and how it ended
Done(r, outcome) ==
    [op |-> "done", handler |-> r.op, target |-> r.target, actor |-> r.actor,
     outcome |-> outcome]

(***************************************************************************)
(* ApprovalStateService                                                    *)
(***************************************************************************)
VALID_TRANSITIONS(from_state) ==
    CASE from_state = "draft" -> {"submitted"}
      [] from_state = "submitted" -> {"approved", "rejected"}
      [] from_state = "approved" -> {"paid"}
      [] from_state = "rejected" -> {"submitted"}
      [] OTHER -> {}

\* TRUE when validate_transition returns without raising ApprovalError
validate_transition(mem, target_state) ==
    target_state \in VALID_TRANSITIONS(mem.state)

\* The in-memory commission as record_action leaves it before save().
Mutated(mem, actor, to_state) ==
    [state |-> to_state,
     approved_by |-> IF to_state = "approved" THEN actor ELSE mem.approved_by,
     approved_at |-> IF to_state = "approved" THEN now ELSE mem.approved_at,
     paid_at |-> IF to_state = "paid" THEN "mark_as_paid" ELSE mem.paid_at]

clean_NoOwnCheck(c, row) == TRUE

\* Commission.clean(): TRUE when full_clean() raises no ValidationError.
\* The type checks read fields no handler changes; the paid check can never
\* raise (it requires state = 'paid' and state != 'paid' of the same object).
clean(c, row) ==
    ~(row.approved_by # NoUser /\ consultant(c) = row.approved_by)

HistoryRow(action, actor, from_state, to_state, notes) ==
    [action |-> action, actor |-> actor, from_state |-> from_state,
     to_state |-> to_state, notes |-> notes]

\* The rows record_action writes for commission c, as functions of the
\* current tables: the saved commission, the get_or_create'd approval record
\* and the appended history entry.
record_action_commission(tbl, c, mem, actor, to_state) ==
    [tbl EXCEPT ![c] = Mutated(mem, actor, to_state)]

record_action_approval(tbl, c) ==
    [tbl EXCEPT ![c].exists = TRUE]

record_action_history(tbl, c, mem, action, actor, to_state, notes) ==
    [tbl EXCEPT ![c] = Append(@, HistoryRow(action, actor, mem.state, to_state, notes))]

(***************************************************************************)
(* ApprovalSubmissionService.submit                                        *)
(***************************************************************************)
SubmitOutcome(c, actor, mem) ==
    IF ~validate_transition(mem, "submitted") THEN "invalid_transition"
    ELSE IF ~clean(c, Mutated(mem, actor, "submitted")) THEN "validation_error"
    ELSE "ok"

submit_LiveApprover(c, actor, mem) ==
    IF SubmitOutcome(c, actor, mem) = "ok"
    THEN /\ commission' = record_action_commission(commission, c, mem, actor, "submitted")
         /\ approval' = [approval EXCEPT ![c] =
                [exists |-> TRUE,
                 assigned_approver |->
                    IF \E l \in reporting_line : l[1] = consultant(c)
                    THEN (CHOOSE l \in reporting_line : l[1] = consultant(c))[2]
                    ELSE NoUser]]
         /\ history' = record_action_history(history, c, mem, "SUBMIT", actor, "submitted", "")
    ELSE UNCHANGED commVars

submit(c, actor, mem) ==
    IF SubmitOutcome(c, actor, mem) = "ok"
    THEN /\ commission' = record_action_commission(commission, c, mem, actor, "submitted")
         /\ approval' = [approval EXCEPT ![c] =
                [exists |-> TRUE,
                 assigned_approver |->
                    IF approval[c].assigned_approver = NoUser
                    THEN manager(c) ELSE approval[c].assigned_approver]]
         /\ history' = record_action_history(history, c, mem, "SUBMIT", actor, "submitted", "")
    ELSE UNCHANGED commVars

(***************************************************************************)
(* ApprovalDecisionService                                                 *)
(***************************************************************************)
is_hierarchy_manager(c, actor) == <<consultant(c), actor>> \in reporting_line

is_explicit_manager(c, actor) == manager(c) = actor

is_assigned_approver(c, actor) ==
    approval[c].exists /\ approval[c].assigned_approver = actor

Authorized_Anyone(c, actor) == TRUE

Authorized(c, actor) ==
    \/ is_admin(actor)
    \/ is_hierarchy_manager(c, actor)
    \/ is_explicit_manager(c, actor)
    \/ is_assigned_approver(c, actor)

\* Commission.objects.filter(parent_commission=c, state='submitted'),
\* evaluated inside the approving transaction; empty unless c is a base.
Cascade_Skipped(c) == {}

Cascade(c) ==
    IF commission_type(c) = "base"
    THEN {o \in Commissions : parent_commission(o) = c /\ commission[o].state = "submitted"}
    ELSE {}

\* approve() of one commission without its cascade
ApproveOne(c, actor, mem) ==
    IF ~validate_transition(mem, "approved") THEN "invalid_transition"
    ELSE IF ~Authorized(c, actor) THEN "auth_denied"
    ELSE IF ~clean(c, Mutated(mem, actor, "approved")) THEN "validation_error"
    ELSE "ok"

ApproveOutcome_OverrideManagerOnly(c, actor, mem) ==
    IF ApproveOne(c, actor, mem) # "ok" THEN ApproveOne(c, actor, mem)
    ELSE IF \E o \in Cascade(c) : ~is_explicit_manager(o, actor) THEN "auth_denied"
    ELSE "ok"

\* approve() with the recursive calls for the overrides: the first failure
\* propagates out of the outer atomic block.
ApproveOutcome(c, actor, mem) ==
    IF ApproveOne(c, actor, mem) # "ok" THEN ApproveOne(c, actor, mem)
    ELSE IF \E o \in Cascade(c) : ApproveOne(o, actor, commission[o]) # "ok"
         THEN LET o == CHOOSE o \in Cascade(c) : ApproveOne(o, actor, commission[o]) # "ok"
              IN  ApproveOne(o, actor, commission[o])
    ELSE "ok"

ApprovedSet(c) == {c} \cup Cascade(c)

approve(c, actor, mem) ==
    IF ApproveOutcome(c, actor, mem) = "ok"
    THEN /\ commission' = [k \in Commissions |->
                IF k = c THEN Mutated(mem, actor, "approved")
                ELSE IF k \in Cascade(c) THEN Mutated(commission[k], actor, "approved")
                ELSE commission[k]]
         /\ approval' = [k \in Commissions |->
                IF k \in ApprovedSet(c) THEN [approval[k] EXCEPT !.exists = TRUE]
                ELSE approval[k]]
         /\ history' = [k \in Commissions |->
                IF k = c
                THEN Append(history[k], HistoryRow("APPROVE", actor, mem.state, "approved", ""))
                ELSE IF k \in Cascade(c)
                THEN Append(history[k],
                        HistoryRow("APPROVE", actor, commission[k].state, "approved", "auto"))
                ELSE history[k]]
    ELSE UNCHANGED commVars

RejectOutcome_ReasonOptional(c, actor, rejection_reason, mem) ==
    IF ~validate_transition(mem, "rejected") THEN "invalid_transition"
    ELSE IF ~Authorized(c, actor) THEN "auth_denied"
    ELSE IF ~clean(c, Mutated(mem, actor, "rejected")) THEN "validation_error"
    ELSE "ok"

RejectOutcome(c, actor, rejection_reason, mem) ==
    IF rejection_reason = "" THEN "validation_error"
    ELSE IF ~validate_transition(mem, "rejected") THEN "invalid_transition"
    ELSE IF ~Authorized(c, actor) THEN "auth_denied"
    ELSE IF ~clean(c, Mutated(mem, actor, "rejected")) THEN "validation_error"
    ELSE "ok"

reject(c, actor, rejection_reason, mem) ==
    IF RejectOutcome(c, actor, rejection_reason, mem) = "ok"
    THEN /\ commission' = record_action_commission(commission, c, mem, actor, "rejected")
         /\ approval' = record_action_approval(approval, c)
         /\ history' = record_action_history(history, c, mem, "REJECT", actor,
                                             "rejected", rejection_reason)
    ELSE UNCHANGED commVars

(***************************************************************************)
(* ApprovalPaymentService.mark_as_paid                                     *)
(***************************************************************************)
MarkPaidOutcome(c, actor, mem) ==
    IF ~is_admin(actor) THEN "auth_denied"
    ELSE IF ~validate_transition(mem, "paid") THEN "invalid_transition"
    ELSE IF ~clean(c, Mutated(mem, actor, "paid")) THEN "validation_error"
    ELSE "ok"

mark_as_paid(c, actor, mem) ==
    IF MarkPaidOutcome(c, actor, mem) = "ok"
    THEN /\ commission' = record_action_commission(commission, c, mem, actor, "paid")
         /\ approval' = record_action_approval(approval, c)
         /\ history' = record_action_history(history, c, mem, "PAID", actor, "paid", "")
    ELSE UNCHANGED commVars

(***************************************************************************)
(* PayoutCalculationService                                                *)
(***************************************************************************)
\* PayoutPeriod rows a batch can be requested for
Periods == {"OPEN", "CLOSED"}

NoBatch == [status |-> "NONE", period |-> "NONE", created_at |-> NoTime,
            released_at |-> FALSE]

HasLineItem(c) == \E li \in lineItems : li.commission = c

Eligible_AnyState == {c \in Commissions : ~HasLineItem(c)}

\* Commission.objects.filter(state='approved', payout_line_item__isnull=True)
Eligible == {c \in Commissions : commission[c].state = "approved" /\ ~HasLineItem(c)}

\* Meta.ordering of Commission: the order in which a queryset yields the rows
QueryOrder == <<"Y", "O", "X">>

EligibleSeq(E) == SelectSeq(QueryOrder, LAMBDA c : c \in E)

\* consultant_groups: consultants in order of first appearance
RECURSIVE GroupOrder(_)
GroupOrder(s) ==
    IF s = <<>> THEN <<>>
    ELSE <<consultant(Head(s))>> \o
         GroupOrder(SelectSeq(Tail(s), LAMBDA c : consultant(c) # consultant(Head(s))))

RECURSIVE PlanOf(_, _)
PlanOf(groups, s) ==
    IF groups = <<>> THEN <<>>
    ELSE SelectSeq(s, LAMBDA c : consultant(c) = Head(groups)) \o PlanOf(Tail(groups), s)

\* The order in which generate_draft_payouts creates the line items of E.
Plan(E) == PlanOf(GroupOrder(EligibleSeq(E)), EligibleSeq(E))

RECURSIVE SumAmounts(_)
SumAmounts(S) ==
    IF S = {} THEN 0
    ELSE LET c == CHOOSE x \in S : TRUE IN calculated_amount(c) + SumAmounts(S \ {c})

\* PayoutLineItem.commission is a OneToOneField: the insert of a second row
\* for a commission raises IntegrityError.
OneToOneViolated_Unchecked(c) == FALSE

OneToOneViolated(c) == HasLineItem(c)

\* Position in the plan of the first insert that raises IntegrityError
\* (Len + 1 when none does).
FirstConflict(plan) ==
    IF \E i \in 1..Len(plan) : OneToOneViolated(plan[i])
    THEN CHOOSE i \in 1..Len(plan) :
            /\ OneToOneViolated(plan[i])
            /\ \A j \in 1..(i - 1) : ~OneToOneViolated(plan[j])
    ELSE Len(plan) + 1

HasPayout(b, g) == \E p \in payouts : p.batch = b /\ p.consultant = g

\* Payout.objects.get_or_create(batch=b, consultant_id=g, defaults=...)
get_or_create_Payout(b, g) ==
    IF HasPayout(b, g)
    THEN CHOOSE p \in payouts : p.batch = b /\ p.consultant = g
    ELSE [batch |-> b, consultant |-> g, status |-> "DRAFT", total_commission |-> 0,
          total_adjustment |-> 0, total_tax |-> 0, net_amount |-> 0, paid_at |-> "null",
          payment_reference |-> "null"]

NewLineItem(b, c) ==
    [batch |-> b, consultant |-> consultant(c), commission |-> c,
     amount |-> calculated_amount(c)]

\* The tables after generate_draft_payouts(b) has worked through the plan of
\* the eligible set E it read, up to the insert at position k that raised
\* (k = Len + 1: none raised).  Line items before k exist; the payout header
\* exists for every group entered; totals are saved for every group finished.
GenPlanCommissions(E, k) == {Plan(E)[i] : i \in 1..(k - 1)}

GenEntered_Everyone(E, k) == Users

GenEntered(E, k) ==
    {consultant(Plan(E)[i]) : i \in {j \in 1..Len(Plan(E)) : j <= k}}

GenFinished(E, k) ==
    {g \in GenEntered(E, k) :
        \A i \in 1..Len(Plan(E)) : consultant(Plan(E)[i]) = g => i < k}

GroupOf(E, g) == {c \in E : consultant(c) = g}

SavedPayout_Recomputed(b, g, E) ==
    LET p == get_or_create_Payout(b, g)
        tc == SumAmounts(GroupOf(E, g))
    IN  [p EXCEPT !.total_commission = tc,
                  !.net_amount = tc + p.total_adjustment - p.total_tax]

SavedPayout(b, g, E) ==
    LET p == get_or_create_Payout(b, g)
        tc == p.total_commission + SumAmounts(GroupOf(E, g))
    IN  [p EXCEPT !.total_commission = tc,
                  !.net_amount = tc + p.total_adjustment - p.total_tax]

GenPayouts(b, E, k) ==
    {p \in payouts : ~(p.batch = b /\ p.consultant \in GenEntered(E, k))}
    \cup {SavedPayout(b, g, E) : g \in GenFinished(E, k)}
    \cup {get_or_create_Payout(b, g) : g \in GenEntered(E, k) \ GenFinished(E, k)}

GenLineItems(b, E, k) ==
    lineItems \cup {NewLineItem(b, c) : c \in GenPlanCommissions(E, k)}

NewBatchId == CHOOSE b \in BatchIds :
                /\ batch[b].status = "NONE"
                /\ \A o \in BatchIds : batch[o].status = "NONE" => b <= o

CanCreate == \E b \in BatchIds : batch[b].status = "NONE"

CreateOutcome_ClosedAllowed(period, E) ==
    IF FirstConflict(Plan(E)) <= Len(Plan(E)) THEN "integrity_error" ELSE "ok"

CreateOutcome(period, E) ==
    IF period = "CLOSED" THEN "validation_error"
    ELSE IF FirstConflict(Plan(E)) <= Len(Plan(E)) THEN "integrity_error"
    ELSE "ok"

\* create_batch_for_period under transaction.atomic, with the eligible set E
\* that its generate_draft_payouts read: every write or none.
create_batch_for_period(period, E, created_at) ==
    IF CreateOutcome(period, E) = "ok"
    THEN LET b == NewBatchId IN
         /\ batch' = [batch EXCEPT ![b] = [status |-> "DRAFT", period |-> period,
                                            created_at |-> created_at,
                                            released_at |-> FALSE]]
         /\ payouts' = GenPayouts(b, E, Len(Plan(E)) + 1)
         /\ lineItems' = GenLineItems(b, E, Len(Plan(E)) + 1)
         /\ payoutHistory' = [payoutHistory EXCEPT ![b] = Append(@, "CREATE")]
         /\ UNCHANGED payment_transaction
    ELSE UNCHANGED payVars

GenerateOutcome(mem, E) ==
    IF mem.status # "DRAFT" THEN "state_error"
    ELSE IF FirstConflict(Plan(E)) <= Len(Plan(E)) THEN "integrity_error"
    ELSE "ok"

\* generate_draft_payouts(b) called on an existing batch: it is not wrapped
\* in a transaction, so the writes made before an IntegrityError stay.
generate_draft_payouts(b, mem, E) ==
    IF mem.status # "DRAFT" THEN UNCHANGED payVars
    ELSE /\ payouts' = GenPayouts(b, E, FirstConflict(Plan(E)))
         /\ lineItems' = GenLineItems(b, E, FirstConflict(Plan(E)))
         /\ UNCHANGED <<batch, payoutHistory, payment_transaction>>

(***************************************************************************)
(* PayoutLifecycleService                                                  *)
(***************************************************************************)
BatchLineItems(b) == {li \in lineItems : li.batch = b}

BatchCommissions(b) == {li.commission : li \in BatchLineItems(b)}

BatchPayouts(b) == {p \in payouts : p.batch = b}

LockOutcome_EmptyAllowed(b, mem) ==
    IF mem.status # "DRAFT" THEN "state_error" ELSE "ok"

LockOutcome(b, mem) ==
    IF mem.status # "DRAFT" THEN "state_error"
    ELSE IF BatchPayouts(b) = {} THEN "validation_error"
    ELSE "ok"

lock_batch(b, mem) ==
    IF LockOutcome(b, mem) = "ok"
    THEN /\ batch' = [batch EXCEPT ![b] = [mem EXCEPT !.status = "LOCKED"]]
         /\ payoutHistory' = [payoutHistory EXCEPT ![b] = Append(@, "LOCK")]
         /\ UNCHANGED <<payouts, lineItems, payment_transaction, commVars>>
    ELSE UNCHANGED <<payVars, commVars>>

\* The PaymentTransaction rows of a batch (hasattr(batch, 'payment_transaction'))
TransactionsOf(b) ==
    {t \in 1..Len(payment_transaction) : payment_transaction[t].batch = b}

NoTransaction == 0   \* parent_transaction IS NULL

RECURSIVE SumTotalCommission(_)
SumTotalCommission(P) ==
    IF P = {} THEN 0
    ELSE LET p == CHOOSE x \in P : TRUE
         IN  p.total_commission + SumTotalCommission(P \ {p})

NewTransaction(b, total_amount, retry_count, parent_transaction) ==
    [batch |-> b, status |-> "PENDING", total_amount |-> total_amount,
     retry_count |-> retry_count, parent_transaction |-> parent_transaction,
     external_reference |-> "null", confirmed_at |-> "null"]

\* post_save receiver of PayoutBatch, on the save of a RELEASED batch: the
\* table after it
create_payment_transaction_on_batch_release(b) ==
    IF TransactionsOf(b) # {} THEN payment_transaction
    ELSE Append(payment_transaction,
                NewTransaction(b, SumTotalCommission(BatchPayouts(b)), 0, NoTransaction))

ReleaseOutcome(b, mem) ==
    IF mem.status # "LOCKED" THEN "state_error" ELSE "ok"

\* Commission.objects.filter(id__in=commission_ids).update(state='paid', paid_at=now)
ReleasedCommissions_OnlyFirst(b) ==
    IF BatchCommissions(b) = {} THEN {}
    ELSE {CHOOSE c \in BatchCommissions(b) : TRUE}

ReleasedCommissions(b) == BatchCommissions(b)

release_batch(b, mem) ==
    IF ReleaseOutcome(b, mem) = "ok"
    THEN /\ batch' = [batch EXCEPT ![b] = [mem EXCEPT !.status = "RELEASED",
                                                     !.released_at = TRUE]]
         /\ payment_transaction' = create_payment_transaction_on_batch_release(b)
         /\ payouts' = {IF p.batch = b
                        THEN [p EXCEPT !.status = "PAID", !.paid_at = "release_batch"]
                        ELSE p : p \in payouts}
         /\ commission' = [c \in Commissions |->
                IF c \in ReleasedCommissions(b)
                THEN [commission[c] EXCEPT !.state = "paid", !.paid_at = "release_batch"]
                ELSE commission[c]]
         /\ payoutHistory' = [payoutHistory EXCEPT ![b] = Append(@, "RELEASE")]
         /\ UNCHANGED <<lineItems, approval, history>>
    ELSE UNCHANGED <<payVars, commVars>>

\* PayoutLineItem.objects.filter(payout__batch=batch).delete()
DeletedLineItems_None(b) == {}

DeletedLineItems_DraftOnly(b) ==
    IF batch[b].status = "DRAFT" THEN {li \in lineItems : li.batch = b} ELSE {}

DeletedLineItems(b) == {li \in lineItems : li.batch = b}

VoidOutcome(b, mem) ==
    IF mem.status = "RELEASED" THEN "state_error" ELSE "ok"

void_batch(b, mem) ==
    IF VoidOutcome(b, mem) = "ok"
    THEN /\ batch' = [batch EXCEPT ![b] = [mem EXCEPT !.status = "VOID"]]
         /\ lineItems' = lineItems \ DeletedLineItems(b)
         /\ payoutHistory' = [payoutHistory EXCEPT ![b] = Append(@, "VOID")]
         /\ UNCHANGED <<payouts, payment_transaction, commVars>>
    ELSE UNCHANGED <<payVars, commVars>>

(***************************************************************************)
(* Request handlers.                                                       *)
(***************************************************************************)
\* CommissionSubmitView: only the owner or a staff user reaches the service
SubmitActors(c) == {a \in Users : a = consultant(c) \/ is_admin(a)}

RejectionReasons == {"", "reason"}

Existing == {b \in BatchIds : batch[b].status # "NONE"}

SubmitHandler(c, a, mem) == submit(c, a, mem) /\ UNCHANGED payVars

ApproveHandler(c, a, mem) == approve(c, a, mem) /\ UNCHANGED payVars

RejectHandler(c, a, reason, mem) == reject(c, a, reason, mem) /\ UNCHANGED payVars

MarkPaidHandler(c, a, mem) == mark_as_paid(c, a, mem) /\ UNCHANGED payVars

LockHandler(b, mem) == lock_batch(b, mem)

ReleaseHandler(b, mem) == release_batch(b, mem)

VoidHandler(b, mem) ==
    /\ VoidOutcome(b, mem) = "ok" => Len(payoutHistory[b]) < MaxPayoutHistory
    /\ void_batch(b, mem)

\* ---- handlers that run on the copy they have just loaded ----
DoSubmit(c, a) == SubmitHandler(c, a, commission[c]) /\ UNCHANGED <<reqVars, hierVars, createVars, now, svcVars>>

DoApprove(c, a) == ApproveHandler(c, a, commission[c]) /\ UNCHANGED <<reqVars, hierVars, createVars, now, svcVars>>

DoReject(c, a, reason) == RejectHandler(c, a, reason, commission[c]) /\ UNCHANGED <<reqVars, hierVars, createVars, now, svcVars>>

DoMarkPaid(c, a) == MarkPaidHandler(c, a, commission[c]) /\ UNCHANGED <<reqVars, hierVars, createVars, now, svcVars>>

DoCreateBatch(period) ==
    /\ CanCreate
    /\ create_batch_for_period(period, Eligible, now + 1)
    /\ now' = IF period = "CLOSED" THEN now ELSE now + 1
    /\ UNCHANGED <<commVars, reqVars, hierVars, createVars, svcVars>>

DoGenerate(b) ==
    /\ generate_draft_payouts(b, batch[b], Eligible)
    /\ UNCHANGED <<commVars, reqVars, hierVars, createVars, now, svcVars>>

DoLock(b) == LockHandler(b, batch[b]) /\ UNCHANGED <<reqVars, hierVars, createVars, now, svcVars>>

DoRelease(b) == ReleaseHandler(b, batch[b]) /\ UNCHANGED <<reqVars, hierVars, createVars, now, svcVars>>

DoVoid(b) == VoidHandler(b, batch[b]) /\ UNCHANGED <<reqVars, hierVars, createVars, now, svcVars>>

\* ---- the handler that is overtaken between its load and its transaction ----
LoadCommission(op, c, a, reason) ==
    /\ req = Idle /\ overtaken < MaxOvertaken
    /\ overtaken' = overtaken + 1
    /\ op = "submit" => a \in SubmitActors(c)
    /\ op # "reject" => reason = ""
    /\ req' = [op |-> op, target |-> c, actor |-> a, reason |-> reason,
               mem |-> commission[c]]
    /\ UNCHANGED <<commVars, payVars, hierVars, createVars, now, svcVars>>

CommitSubmit ==
    /\ req.op = "submit"
    /\ SubmitHandler(req.target, req.actor, req.mem)
    /\ req' = Done(req, SubmitOutcome(req.target, req.actor, req.mem)) /\ UNCHANGED <<overtaken, hierVars, createVars, now, svcVars>>

CommitApprove ==
    /\ req.op = "approve"
    /\ ApproveHandler(req.target, req.actor, req.mem)
    /\ req' = Done(req, ApproveOutcome(req.target, req.actor, req.mem)) /\ UNCHANGED <<overtaken, hierVars, createVars, now, svcVars>>

CommitReject ==
    /\ req.op = "reject"
    /\ RejectHandler(req.target, req.actor, req.reason, req.mem)
    /\ req' = Done(req, RejectOutcome(req.target, req.actor, req.reason, req.mem)) /\ UNCHANGED <<overtaken, hierVars, createVars, now, svcVars>>

CommitMarkPaid ==
    /\ req.op = "mark_paid"
    /\ MarkPaidHandler(req.target, req.actor, req.mem)
    /\ req' = Done(req, MarkPaidOutcome(req.target, req.actor, req.mem)) /\ UNCHANGED <<overtaken, hierVars, createVars, now, svcVars>>

LoadBatch(op, b) ==
    /\ req = Idle /\ overtaken < MaxOvertaken
    /\ overtaken' = overtaken + 1
    /\ req' = [op |-> op, target |-> b, actor |-> "root", mem |-> batch[b]]
    /\ UNCHANGED <<commVars, payVars, hierVars, createVars, now, svcVars>>

CommitLock ==
    /\ req.op = "lock"
    /\ LockHandler(req.target, req.mem)
    /\ req' = Done(req, LockOutcome(req.target, req.mem)) /\ UNCHANGED <<overtaken, hierVars, createVars, now, svcVars>>

CommitRelease ==
    /\ req.op = "release"
    /\ ReleaseHandler(req.target, req.mem)
    /\ req' = Done(req, ReleaseOutcome(req.target, req.mem)) /\ UNCHANGED <<overtaken, hierVars, createVars, now, svcVars>>

CommitVoid ==
    /\ req.op = "void"
    /\ VoidHandler(req.target, req.mem)
    /\ req' = Done(req, VoidOutcome(req.target, req.mem)) /\ UNCHANGED <<overtaken, hierVars, createVars, now, svcVars>>

\* generate_draft_payouts on a loaded batch: the status check and the
\* eligibility query, then the inserts
ReadGenerate ==
    /\ req.op = "generate"
    /\ req' = IF req.mem.status # "DRAFT" THEN Done(req, "state_error")
              ELSE [op |-> "generate_read", target |-> req.target, actor |-> req.actor,
                    mem |-> req.mem,
                    eligible |-> Eligible]
    /\ UNCHANGED <<commVars, payVars, overtaken, hierVars, createVars, now, svcVars>>

CommitGenerate ==
    /\ req.op = "generate_read"
    /\ generate_draft_payouts(req.target, req.mem, req.eligible)
    /\ req' = Done(req, GenerateOutcome(req.mem, req.eligible)) /\ UNCHANGED <<overtaken, hierVars, createVars, now, svcVars>>
    /\ UNCHANGED commVars

\* create_batch_for_period on an open period: the batch insert and the
\* eligibility query, then the inserts and the commit
BeginCreate ==
    /\ req = Idle /\ overtaken < MaxOvertaken
    /\ overtaken' = overtaken + 1
    /\ CanCreate
    /\ now' = now + 1
    /\ req' = [op |-> "create", target |-> NewBatchId, actor |-> "root",
               eligible |-> Eligible,
               created_at |-> now + 1]
    /\ UNCHANGED <<commVars, payVars, hierVars, createVars, svcVars>>

CommitCreate ==
    /\ req.op = "create"
    /\ CanCreate
    /\ create_batch_for_period("OPEN", req.eligible, req.created_at)
    /\ req' = [Done(req, CreateOutcome("OPEN", req.eligible)) EXCEPT !.target = NewBatchId] /\ UNCHANGED <<overtaken, hierVars, createVars, now, svcVars>>
    /\ UNCHANGED commVars

(***************************************************************************)
(* Reporting-line administration (hierarchy/views.py); a request the       *)
(* serializer refuses changes nothing.                                     *)
(***************************************************************************)
\* ReportingLine.objects.filter(consultant_id=..., is_active=True)
ActiveLinesOf(consultant_id) == {l \in reporting_line : l[1] = consultant_id}

assign_manager(consultant_id, manager_id) ==
    /\ consultant_id # manager_id
    /\ <<manager_id, consultant_id>> \notin reporting_line
    /\ ActiveLinesOf(consultant_id) = {}
    /\ reporting_line' = reporting_line \cup {<<consultant_id, manager_id>>}
    /\ UNCHANGED <<commVars, payVars, reqVars, createVars, now, svcVars>>

change_manager(consultant_id, new_manager_id) ==
    /\ consultant_id # new_manager_id
    /\ ActiveLinesOf(consultant_id) # {}
    /\ LET current_manager == CHOOSE l \in ActiveLinesOf(consultant_id) : TRUE
       IN  /\ current_manager[2] # new_manager_id
           /\ reporting_line' = (reporting_line \ {current_manager})
                                    \cup {<<consultant_id, new_manager_id>>}
    /\ UNCHANGED <<commVars, payVars, reqVars, createVars, now, svcVars>>

deactivate_reporting_line(l) ==
    /\ l \in reporting_line
    /\ reporting_line' = reporting_line \ {l}
    /\ UNCHANGED <<commVars, payVars, reqVars, createVars, now, svcVars>>

(***************************************************************************)
(* CommissionCreationService.create_base_commission_with_overrides.        *)
(* A reference number is a string, kept as the sequence of its parts: the  *)
(* text before the first "-OVR-L", then one "-OVR-L<level>" part for each  *)
(* suffix, so that f"{reference_number}-OVR-L{level}" is Append.           *)
(***************************************************************************)
reference_number(c) ==
    CASE c = "X" -> <<"X">>
      [] c = "O" -> <<"X", "-OVR-L1">>
      [] c = "Y" -> <<"Y">>

MAX_OVERRIDE_LEVELS == 2

OverrideReference(reference, level) ==
    Append(reference, IF level = 1 THEN "-OVR-L1" ELSE "-OVR-L2")

\* the manager of the line in force at the transaction date, the date being
\* today and the active lines having started before
get_manager_at_date(who) ==
    IF ActiveLinesOf(who) = {} THEN NoUser
    ELSE (CHOOSE l \in ActiveLinesOf(who) : TRUE)[2]

RECURSIVE ChainFrom(_, _, _)
ChainFrom(who, current_user, level) ==
    IF level > MAX_OVERRIDE_LEVELS THEN <<>>
    ELSE LET m == get_manager_at_date(current_user) IN
         IF m = NoUser \/ m = who THEN <<>>
         ELSE <<[manager |-> m, level |-> level]>> \o ChainFrom(who, m, level + 1)

resolve_override_chain(who) == ChainFrom(who, who, 1)

\* DEFAULT_OVERRIDE_RATES.get(level, Decimal('0.00')), in hundredths of a percent
get_override_rate_Flat(level) == 200

get_override_rate(level) ==
    IF level = 1 THEN 200 ELSE IF level = 2 THEN 100 ELSE 0

\* the commission_rate the caller sends for the base: 5.00 %
BaseRate == 500

BaseRow(who, reference) ==
    [reference_number |-> reference, commission_type |-> "base",
     consultant |-> who, manager |-> NoUser, override_level |-> 0,
     commission_rate |-> BaseRate,
     parent_commission |-> <<>>, state |-> "draft"]

OverrideRow(who, reference, entry) ==
    [reference_number |-> OverrideReference(reference, entry.level),
     commission_type |-> "override",
     consultant |-> who, manager |-> entry.manager, override_level |-> entry.level,
     commission_rate |-> get_override_rate(entry.level),
     parent_commission |-> reference, state |-> "draft"]

\* the rows the call inserts, in its order: the base, then one override per
\* entry of the chain
RowsToInsert(who, reference) ==
    LET chain == resolve_override_chain(who) IN
    <<BaseRow(who, reference)>>
        \o [i \in 1..Len(chain) |-> OverrideRow(who, reference, chain[i])]

References(table) ==
    {reference_number(c) : c \in Commissions}
        \cup {table[i].reference_number : i \in DOMAIN table}

ReferenceTaken_Never(reference, table) == FALSE

\* reference_number is unique=True: full_clean()'s validate_unique on the
\* rows it can see, and the unique index on the rows committed
ReferenceTaken(reference, table) == reference \in References(table)

\* index of the first insert that fails, Len(rows) + 1 when none does
FirstCollision(rows, table) ==
    IF \E k \in 1..Len(rows) : ReferenceTaken(rows[k].reference_number, table)
    THEN CHOOSE k \in 1..Len(rows) :
            /\ ReferenceTaken(rows[k].reference_number, table)
            /\ \A i \in 1..(k - 1) : ~ReferenceTaken(rows[i].reference_number, table)
    ELSE Len(rows) + 1

PersistedRows_NoRollback(rows, k) == SubSeq(rows, 1, k - 1)

\* @transaction.atomic: the exception of insert k undoes the inserts before it
PersistedRows(rows, k) == IF k <= Len(rows) THEN <<>> ELSE rows

\* validated: the base reference passed validate_unique before a competing
\* row was committed, so that the unique index is what refuses it
CreateCommissionOutcome(who, reference, validated) ==
    LET rows == RowsToInsert(who, reference)
        k == FirstCollision(rows, new_commissions)
    IN  IF k > Len(rows) THEN "ok"
        ELSE IF k = 1 /\ validated THEN "integrity_error"
        ELSE "validation_error"

create_base_commission_with_overrides(who, reference) ==
    LET rows == RowsToInsert(who, reference) IN
    new_commissions' =
        new_commissions \o PersistedRows(rows, FirstCollision(rows, new_commissions))

\* the consultants commissions are created for, and the reference numbers
\* callers send: "A", "A-OVR-L1" and the reference of X
Sellers == {"alice", "bob"}
ReferenceNumbers == {<<"A">>, <<"A", "-OVR-L1">>, <<"X">>}

CreationRoom(who) ==
    Len(new_commissions) + 1 + Len(resolve_override_chain(who)) <= MaxNewCommissions

DoCreateCommission(who, reference) ==
    /\ create_base_commission_with_overrides(who, reference)
    /\ UNCHANGED <<commVars, payVars, reqVars, hierVars, now, svcVars>>

\* the call whose transaction is overtaken after the base passed
\* validate_unique: req.actor is the consultant of the new commission
BeginCreateCommission(who, reference) ==
    /\ req = Idle /\ overtaken < MaxOvertaken
    /\ overtaken' = overtaken + 1
    /\ req' = IF ReferenceTaken(reference, new_commissions)
              THEN Done([op |-> "create_commission", target |-> reference,
                         actor |-> who], "validation_error")
              ELSE [op |-> "create_commission", target |-> reference, actor |-> who]
    /\ UNCHANGED <<commVars, payVars, hierVars, createVars, now, svcVars>>

CommitCreateCommission ==
    /\ req.op = "create_commission"
    /\ create_base_commission_with_overrides(req.actor, req.target)
    /\ req' = Done(req, CreateCommissionOutcome(req.actor, req.target, TRUE))
    /\ UNCHANGED <<commVars, payVars, overtaken, hierVars, now, svcVars>>

(***************************************************************************)
(* OverrideResolutionService on reporting lines with their dates.  A date  *)
(* is a day number; the rows are whatever the table holds, cycles          *)
(* included, within the CHECK constraints of the table.                    *)
(***************************************************************************)
NoDate == 0             \* end_date IS NULL
DefaultLevels == 0 - 1  \* max_levels=None
Staff == {"alice", "bob", "fay"}
Dates == 1..MaxDate

\* a row the constraints no_self_management and end_date >= start_date admit
LineRows ==
    {l \in [consultant : Staff, manager : Staff, start_date : Dates,
            end_date : {NoDate} \cup 1..(MaxDate - 1)] :
        /\ l.consultant # l.manager
        /\ (l.end_date = NoDate \/ l.end_date >= l.start_date)}

InsertLine(l) ==
    /\ call = NoCall
    /\ Cardinality(dated_lines) < MaxLines
    /\ dated_lines' = dated_lines \cup {l}
    /\ UNCHANGED <<commVars, payVars, reqVars, hierVars, createVars, now, call, adjVars>>

\* .filter(consultant=consultant, start_date__lte=transaction_date)
\* .filter(Q(end_date__isnull=True) | Q(end_date__gte=transaction_date))
CoveringLines_OpenEnded(lines, consultant_id, transaction_date) ==
    {l \in lines : l.consultant = consultant_id /\ l.start_date <= transaction_date}

CoveringLines(lines, consultant_id, transaction_date) ==
    {l \in lines : /\ l.consultant = consultant_id
                   /\ l.start_date <= transaction_date
                   /\ (l.end_date = NoDate \/ l.end_date >= transaction_date)}

\* .first() under Meta.ordering = ['-start_date']: a row with the greatest
\* start_date; among rows of equal start_date the database chooses
FirstLines(lines, consultant_id, transaction_date) ==
    LET found == CoveringLines(lines, consultant_id, transaction_date)
    IN  {l \in found : \A k \in found : k.start_date <= l.start_date}

\* the values get_manager_at_date can return (NoUser: None)
get_manager_at(lines, consultant_id, transaction_date) ==
    IF FirstLines(lines, consultant_id, transaction_date) = {}
    THEN {NoUser}
    ELSE {l.manager : l \in FirstLines(lines, consultant_id, transaction_date)}

DoGetManager(consultant_id, transaction_date) ==
    /\ call = NoCall
    /\ \E manager_id \in get_manager_at(dated_lines, consultant_id, transaction_date) :
        call' = [op |-> "get_manager_at_date", consultant |-> consultant_id,
                 transaction_date |-> transaction_date, result |-> manager_id]
    /\ UNCHANGED <<commVars, payVars, reqVars, hierVars, createVars, now, dated_lines, adjVars>>

\* if manager == consultant: break
IsCycle_Never(manager_id, consultant_id) == FALSE

IsCycle(manager_id, consultant_id) == manager_id = consultant_id

\* resolve_override_chain up to its loop
BeginResolve(consultant_id, transaction_date, max_levels) ==
    /\ call = NoCall
    /\ call' = [op |-> "resolve_override_chain", consultant |-> consultant_id,
                transaction_date |-> transaction_date, max_levels |-> max_levels,
                limit |-> IF max_levels = DefaultLevels THEN MAX_OVERRIDE_LEVELS
                          ELSE max_levels,
                override_chain |-> <<>>, current_user |-> consultant_id,
                level |-> 1, returned |-> FALSE]
    /\ UNCHANGED <<commVars, payVars, reqVars, hierVars, createVars, now, dated_lines, adjVars>>

\* one pass of "for level in range(1, max_levels + 1)", or the return
StepResolve ==
    /\ call.op = "resolve_override_chain" /\ ~call.returned
    /\ IF call.level > call.limit
       THEN call' = [call EXCEPT !.returned = TRUE]
       ELSE \E manager_id \in get_manager_at(dated_lines, call.current_user,
                                             call.transaction_date) :
               IF manager_id = NoUser \/ IsCycle(manager_id, call.consultant)
               THEN call' = [call EXCEPT !.returned = TRUE]
               ELSE call' = [call EXCEPT
                        !.override_chain =
                            Append(@, [manager |-> manager_id, level |-> call.level]),
                        !.current_user = manager_id,
                        !.level = @ + 1]
    /\ UNCHANGED <<commVars, payVars, reqVars, hierVars, createVars, now, dated_lines, adjVars>>

MaxLevelsInputs == {DefaultLevels} \cup 0..MaxLevels

(***************************************************************************)
(* CommissionCalculationService.calculate_base_commission.  Amounts are    *)
(* whole cents and rates whole hundredths of a percent, so every Decimal   *)
(* of the code is a ratio of integers here: the commission in cents is     *)
(* sale * rate / 10000, over (10000 + gst) / 10000 when GST is backed out. *)
(***************************************************************************)
SaleAmounts == 1..MaxSale \cup {110000, 333333}
CommissionRates == {500, 777, 1100}
GstRates == {0, 1000}

\* gst_multiplier, times 10000
CalcDenominator(gst_rate) == IF gst_rate > 0 THEN 10000 + gst_rate ELSE 10000

\* d without its factors 2 and 5: sale / gst_multiplier has finitely many
\* digits exactly when this divides the sale
RECURSIVE OddCore(_)
OddCore(d) ==
    IF d % 2 = 0 THEN OddCore(d \div 2)
    ELSE IF d % 5 = 0 THEN OddCore(d \div 5)
    ELSE d

\* whether base_amount is free of the rounding of the Decimal context
\* (28 significant digits)
BaseAmountExact(sale_amount, gst_rate) ==
    gst_rate = 0 \/ sale_amount % OddCore(CalcDenominator(gst_rate)) = 0

\* commission.quantize(Decimal('0.01')) under the context's ROUND_HALF_EVEN,
\* of num / den cents
quantize(num, den) ==
    IF 2 * (num % den) > den THEN (num \div den) + 1
    ELSE IF 2 * (num % den) < den THEN num \div den
    ELSE IF (num \div den) % 2 = 0 THEN num \div den ELSE (num \div den) + 1

\* the amounts, in cents, the call can return.  A tie reached through a
\* base_amount that was itself rounded falls to the side the 28-digit
\* roundings leave it on.
calculate_base_commission(sale_amount, commission_rate, gst_rate) ==
    LET num == sale_amount * commission_rate
        den == CalcDenominator(gst_rate)
    IN  IF 2 * (num % den) = den /\ ~BaseAmountExact(sale_amount, gst_rate)
        THEN {num \div den, (num \div den) + 1}
        ELSE {quantize(num, den)}

DoCalculate(sale_amount, commission_rate, gst_rate) ==
    /\ call = NoCall
    /\ \E amount \in calculate_base_commission(sale_amount, commission_rate, gst_rate) :
        call' = [op |-> "calculate_base_commission", sale_amount |-> sale_amount,
                 commission_rate |-> commission_rate, gst_rate |-> gst_rate,
                 result |-> amount]
    /\ UNCHANGED <<commVars, payVars, reqVars, hierVars, createVars, now, dated_lines, adjVars>>

(***************************************************************************)
(* AdjustmentService.create_adjustment, on the commission row its view     *)
(* has just loaded.                                                        *)
(***************************************************************************)
AdjustmentAmounts == {0 - 1000, 0}

CreateAdjustmentOutcome(mem, adjustment_amount) ==
    IF mem.state # "paid" THEN "validation_error"
    ELSE IF adjustment_amount = 0 THEN "validation_error"
    ELSE "ok"

create_adjustment(original_commission, mem, adjustment_amount) ==
    IF CreateAdjustmentOutcome(mem, adjustment_amount) = "ok"
    THEN adjustments' = Append(adjustments,
            [commission_type |-> "adjustment", adjustment_for |-> original_commission,
             calculated_amount |-> adjustment_amount, state |-> "draft"])
    ELSE UNCHANGED adjustments

DoCreateAdjustment(original_commission, adjustment_amount) ==
    /\ Len(adjustments) < MaxAdjustments
    /\ create_adjustment(original_commission, commission[original_commission],
                         adjustment_amount)
    /\ UNCHANGED <<commVars, payVars, reqVars, hierVars, createVars, now,
                   dated_lines, call>>

(***************************************************************************)
(* Responses of the approval views to an ApprovalError.  str(e) is kept as *)
(* the sequence of its words, the interpolated values left out.            *)
(***************************************************************************)
ApprovalErrorMessage(handler, outcome) ==
    CASE outcome = "invalid_transition" ->
            <<"Invalid", "transition", "from", "to">>
      [] handler = "approve" /\ outcome = "auth_denied" ->
            <<"Auth", "Denied.", "Admin:", "Hier:", "Expl:", "Actor:", "Cons:">>
      [] handler = "reject" /\ outcome = "auth_denied" ->
            <<"You", "are", "not", "authorized", "to", "reject", "this", "commission.">>
      [] handler = "mark_paid" /\ outcome = "auth_denied" ->
            <<"Only", "Admins", "or", "Finance", "roles", "can", "mark",
              "commissions", "as", "paid.">>

\* str.lower(), on the words that have a capital
lower(word) ==
    CASE word = "Invalid" -> "invalid"
      [] word = "Auth" -> "auth"
      [] word = "Denied." -> "denied."
      [] word = "Admin:" -> "admin:"
      [] word = "Hier:" -> "hier:"
      [] word = "Expl:" -> "expl:"
      [] word = "Actor:" -> "actor:"
      [] word = "Cons:" -> "cons:"
      [] word = "You" -> "you"
      [] word = "Only" -> "only"
      [] word = "Admins" -> "admins"
      [] word = "Finance" -> "finance"
      [] OTHER -> word

\* "authorized" in str(e).lower()
MentionsAuthorized(message) ==
    \E i \in 1..Len(message) : lower(message[i]) = "authorized"

\* "Only Admins" in str(e)
MentionsOnlyAdmins(message) ==
    \E i \in 1..(Len(message) - 1) : message[i] = "Only" /\ message[i + 1] = "Admins"

HTTP_403_FORBIDDEN == 403
HTTP_409_CONFLICT == 409

\* the status of the response to the ApprovalError that ended a request
ApprovalErrorStatus(handler, outcome) ==
    LET message == ApprovalErrorMessage(handler, outcome)
    IN  IF handler = "mark_paid"
        THEN IF MentionsOnlyAdmins(message) THEN HTTP_403_FORBIDDEN
             ELSE HTTP_409_CONFLICT
        ELSE IF MentionsAuthorized(message) THEN HTTP_403_FORBIDDEN
             ELSE HTTP_409_CONFLICT

(***************************************************************************)
(* PaymentTransactionService (payments/services.py) with the receivers of  *)
(* payments/signals.py, each call on the row its view has just loaded.     *)
(* call keeps the last call and how it ended.                              *)
(***************************************************************************)
TransactionIds == 1..Len(payment_transaction)
ExternalReferences == {"", "BANK-1", "BANK-2"}
FailureReasons == {"", "reason"}
MAX_RETRIES == 3

\* PaymentTransaction.batch is a OneToOneField: the insert of a second row
\* for a batch raises IntegrityError
BatchTaken(b) == \E t \in TransactionIds : payment_transaction[t].batch = b

\* PaymentTransaction.external_reference is unique
ReferenceHeld(t, external_reference) ==
    \E o \in TransactionIds :
        o # t /\ payment_transaction[o].external_reference = external_reference

ConfirmOutcome(t, mem, external_reference) ==
    IF mem.status \notin {"PENDING", "PROCESSING"} THEN "state_error"
    ELSE IF external_reference = "" THEN "validation_error"
    ELSE IF ReferenceHeld(t, external_reference) THEN "integrity_error"
    ELSE "ok"

\* Payout.objects.filter(batch=...).update(paid_at=confirmed_at,
\* payment_reference=external_reference): by the post_save receiver of
\* PaymentTransaction on the change to COMPLETED, and again by the service
StampedPayouts(b, external_reference) ==
    {IF p.batch = b
     THEN [p EXCEPT !.paid_at = "confirm_payment",
                    !.payment_reference = external_reference]
     ELSE p : p \in payouts}

confirm_payment(t, mem, external_reference) ==
    IF ConfirmOutcome(t, mem, external_reference) = "ok"
    THEN /\ payment_transaction' = [payment_transaction EXCEPT ![t] =
                [mem EXCEPT !.status = "COMPLETED",
                            !.confirmed_at = "confirm_payment",
                            !.external_reference = external_reference]]
         /\ payouts' = StampedPayouts(mem.batch, external_reference)
    ELSE UNCHANGED <<payment_transaction, payouts>>

FailOutcome(mem, failure_reason) ==
    IF mem.status \notin {"PENDING", "PROCESSING"} THEN "state_error"
    ELSE IF failure_reason = "" THEN "validation_error"
    ELSE "ok"

mark_payment_failed(t, mem, failure_reason) ==
    /\ payment_transaction' =
          IF FailOutcome(mem, failure_reason) = "ok"
          THEN [payment_transaction EXCEPT ![t] = [mem EXCEPT !.status = "FAILED"]]
          ELSE payment_transaction
    /\ UNCHANGED payouts

RetryOutcome(mem) ==
    IF mem.status # "FAILED" THEN "state_error"
    ELSE IF mem.retry_count >= MAX_RETRIES THEN "validation_error"
    ELSE IF BatchTaken(mem.batch) THEN "integrity_error"
    ELSE "ok"

retry_payment(t, mem) ==
    /\ payment_transaction' =
          IF RetryOutcome(mem) = "ok"
          THEN Append(payment_transaction,
                      NewTransaction(mem.batch, mem.total_amount, mem.retry_count + 1, t))
          ELSE payment_transaction
    /\ UNCHANGED payouts

CancelOutcome(mem) ==
    IF mem.status \notin {"PENDING", "PROCESSING"} THEN "state_error" ELSE "ok"

cancel_payment(t, mem) ==
    /\ payment_transaction' =
          IF CancelOutcome(mem) = "ok"
          THEN [payment_transaction EXCEPT ![t] = [mem EXCEPT !.status = "CANCELLED"]]
          ELSE payment_transaction
    /\ UNCHANGED payouts

PaymentCall(op, t, outcome) == [op |-> op, transaction |-> t, outcome |-> outcome]

DoConfirm(t, external_reference) ==
    /\ confirm_payment(t, payment_transaction[t], external_reference)
    /\ call' = PaymentCall("confirm_payment", t,
                           ConfirmOutcome(t, payment_transaction[t], external_reference))
    /\ UNCHANGED <<batch, lineItems, payoutHistory, commVars, reqVars, hierVars,
                   createVars, now, dated_lines, adjVars>>

DoFail(t, failure_reason) ==
    /\ mark_payment_failed(t, payment_transaction[t], failure_reason)
    /\ call' = PaymentCall("mark_payment_failed", t,
                           FailOutcome(payment_transaction[t], failure_reason))
    /\ UNCHANGED <<batch, lineItems, payoutHistory, commVars, reqVars, hierVars,
                   createVars, now, dated_lines, adjVars>>

DoRetry(t) ==
    /\ retry_payment(t, payment_transaction[t])
    /\ call' = PaymentCall("retry_payment", t, RetryOutcome(payment_transaction[t]))
    /\ UNCHANGED <<batch, lineItems, payoutHistory, commVars, reqVars, hierVars,
                   createVars, now, dated_lines, adjVars>>

DoCancel(t) ==
    /\ cancel_payment(t, payment_transaction[t])
    /\ call' = PaymentCall("cancel_payment", t, CancelOutcome(payment_transaction[t]))
    /\ UNCHANGED <<batch, lineItems, payoutHistory, commVars, reqVars, hierVars,
                   createVars, now, dated_lines, adjVars>>

(***************************************************************************)
(* ReconciliationService.create_reconciliation: the PaymentReconciliation  *)
(* row it inserts is kept in call.                                         *)
(***************************************************************************)
ActualAmounts == 0..MaxActual

\* "actual_amount - expected_amount if actual_amount else Decimal('0.00')":
\* a Decimal is false exactly when it is zero
Discrepancy(actual_amount, expected_amount) ==
    IF actual_amount # 0 THEN actual_amount - expected_amount ELSE 0

create_reconciliation(b, actual_amount) ==
    LET expected_amount == SumTotalCommission(BatchPayouts(b))
        discrepancy == Discrepancy(actual_amount, expected_amount)
    IN  [op |-> "create_reconciliation", batch |-> b,
         status |-> IF discrepancy = 0 THEN "RECONCILED" ELSE "DISCREPANCY",
         expected_amount |-> expected_amount, actual_amount |-> actual_amount,
         discrepancy_amount |-> discrepancy]

DoReconcile(b, actual_amount) ==
    /\ call' = create_reconciliation(b, actual_amount)
    /\ UNCHANGED <<payVars, commVars, reqVars, hierVars, createVars, now,
                   dated_lines, adjVars>>

(***************************************************************************)
(* Reporting-line administration (hierarchy/views.py) on the rows with     *)
(* their dates: [id, consultant, manager, start_date, end_date, is_active]. *)
(* A request the serializer refuses, or whose save() raises in             *)
(* full_clean(), writes nothing.                                           *)
(***************************************************************************)
\* ReportingLine.objects.filter(consultant_id=..., is_active=True)
ActiveRowsOf(consultant_id) ==
    {l \in dated_lines : l.consultant = consultant_id /\ l.is_active}

\* ReportingLine.clean(): TRUE when full_clean() raises no ValidationError
\* for the dates of the row
CleanDates(start_date, end_date) == end_date = NoDate \/ end_date >= start_date

\* assign_manager: ReportingLineSerializer.validate, then create
AssignManagerAt(consultant_id, manager_id, start_date, end_date) ==
    /\ consultant_id # manager_id
    /\ ~\E l \in ActiveRowsOf(manager_id) : l.manager = consultant_id
    /\ ActiveRowsOf(consultant_id) = {}
    /\ CleanDates(start_date, end_date)
    /\ Cardinality(dated_lines) < MaxLines
    /\ dated_lines' = dated_lines \cup
            {[id |-> Cardinality(dated_lines) + 1, consultant |-> consultant_id,
              manager |-> manager_id, start_date |-> start_date,
              end_date |-> end_date, is_active |-> TRUE]}
    /\ UNCHANGED <<commVars, payVars, reqVars, hierVars, createVars, now, call, adjVars>>

\* change_manager: ChangeManagerSerializer.validate, then the old line ends
\* the day before the transition date and the new line starts on it
ChangeManagerAt(consultant_id, new_manager_id, transition_date) ==
    /\ consultant_id # new_manager_id
    /\ ActiveRowsOf(consultant_id) # {}
    /\ LET current_manager == CHOOSE l \in ActiveRowsOf(consultant_id) : TRUE IN
       /\ current_manager.manager # new_manager_id
       /\ CleanDates(current_manager.start_date, transition_date - 1)
       /\ transition_date - 1 # NoDate
       /\ Cardinality(dated_lines) < MaxLines
       /\ dated_lines' = (dated_lines \ {current_manager}) \cup
            {[current_manager EXCEPT !.end_date = transition_date - 1,
                                     !.is_active = FALSE],
             [id |-> Cardinality(dated_lines) + 1, consultant |-> consultant_id,
              manager |-> new_manager_id, start_date |-> transition_date,
              end_date |-> NoDate, is_active |-> TRUE]}
    /\ UNCHANGED <<commVars, payVars, reqVars, hierVars, createVars, now, call, adjVars>>

\* deactivate_reporting_line
DeactivateAt(l, end_date) ==
    /\ l \in dated_lines
    /\ l.is_active
    /\ CleanDates(l.start_date, end_date)
    /\ dated_lines' = (dated_lines \ {l}) \cup
            {[l EXCEPT !.is_active = FALSE, !.end_date = end_date]}
    /\ UNCHANGED <<commVars, payVars, reqVars, hierVars, createVars, now, call, adjVars>>

(***************************************************************************)
(* Specifications.                                                         *)
(***************************************************************************)
NoPayoutRows ==
    /\ batch = [b \in BatchIds |-> NoBatch]
    /\ payouts = {}
    /\ lineItems = {}
    /\ payoutHistory = [b \in BatchIds |-> <<>>]
    /\ payment_transaction = <<>>

NoServiceRows ==
    /\ dated_lines = {}
    /\ call = NoCall
    /\ adjustments = <<>>

\* The rows of a commission that its consultant has submitted and, for
\* state "approved", that bob has then approved.
RowsAfter(c, state) ==
    [commission |-> [state |-> state,
                     approved_by |-> IF state = "approved" THEN "bob" ELSE NoUser,
                     approved_at |-> IF state = "approved" THEN 0 ELSE NoTime,
                     paid_at |-> "null"],
     approval |-> [exists |-> TRUE, assigned_approver |-> manager(c)],
     history |-> IF state = "approved"
                 THEN <<HistoryRow("SUBMIT", consultant(c), "draft", "submitted", ""),
                        HistoryRow("APPROVE", "bob", "submitted", "approved", "")>>
                 ELSE <<HistoryRow("SUBMIT", consultant(c), "draft", "submitted", "")>>]

\* Every commission freshly created: the approval workflow from its start.
Init ==
    /\ commission = [c \in Commissions |->
            [state |-> "draft", approved_by |-> NoUser, approved_at |-> NoTime,
             paid_at |-> "null"]]
    /\ approval = [c \in Commissions |-> [exists |-> FALSE, assigned_approver |-> NoUser]]
    /\ history = [c \in Commissions |-> <<>>]
    /\ NoPayoutRows
    /\ req = Idle /\ overtaken = 0 /\ now = 0
    /\ reporting_line = ReportingLine
    /\ new_commissions = <<>>
    /\ NoServiceRows

\* Every commission submitted or approved, no batch yet: the settlement
\* engine from its start.
InitPayout ==
    /\ \E st \in [Commissions -> {"submitted", "approved"}] :
        /\ commission = [c \in Commissions |-> RowsAfter(c, st[c]).commission]
        /\ approval = [c \in Commissions |-> RowsAfter(c, st[c]).approval]
        /\ history = [c \in Commissions |-> RowsAfter(c, st[c]).history]
    /\ NoPayoutRows
    /\ req = Idle /\ overtaken = 0 /\ now = 0
    /\ reporting_line = ReportingLine
    /\ new_commissions = <<>>
    /\ NoServiceRows

RECURSIVE HistoryRows(_)
HistoryRows(S) ==
    IF S = {} THEN 0
    ELSE LET c == CHOOSE x \in S : TRUE IN Len(history[c]) + HistoryRows(S \ {c})

\* Room in the bounded ApprovalHistory table for n more rows
HistoryRoom(n) == HistoryRows(Commissions) + n <= MaxHistory

NextApproval ==
    \/ \E c \in Commissions : \E a \in SubmitActors(c) :
          HistoryRoom(1) /\ DoSubmit(c, a)
    \/ \E c \in Commissions, a \in Users :
          HistoryRoom(Cardinality(ApprovedSet(c))) /\ DoApprove(c, a)
    \/ \E c \in Commissions, a \in Users, reason \in RejectionReasons :
          HistoryRoom(1) /\ DoReject(c, a, reason)
    \/ \E c \in Commissions, a \in Users : HistoryRoom(1) /\ DoMarkPaid(c, a)
    \/ \E op \in {"submit", "approve", "reject", "mark_paid"}, c \in Commissions,
          a \in Users, reason \in RejectionReasons : LoadCommission(op, c, a, reason)
    \/ HistoryRoom(1) /\ CommitSubmit
    \/ CommitApprove /\ HistoryRoom(Cardinality(ApprovedSet(req.target)))
    \/ HistoryRoom(1) /\ CommitReject
    \/ HistoryRoom(1) /\ CommitMarkPaid

\* The settlement engine with every handler running on the copy it has just
\* loaded; the approval workflow continues on the base commission X.
NextPayout ==
    \/ DoApprove("X", "bob")
    \/ DoMarkPaid("X", "root")
    \/ \E period \in Periods : DoCreateBatch(period)
    \/ \E b \in Existing : DoGenerate(b)
    \/ \E b \in Existing : DoLock(b)
    \/ \E b \in Existing : DoRelease(b)
    \/ \E b \in Existing : DoVoid(b)

\* Room in the bounded PayoutBatch table for one more row while a handler
\* may be overtaken
RacingRoom ==
    Cardinality(Existing) + (IF req.op = "create" THEN 1 ELSE 0) < MaxRacingBatches

\* The settlement engine with one handler overtaken between its load and its
\* transaction.
NextRace ==
    \/ DoApprove("X", "bob")
    \/ DoMarkPaid("X", "root")
    \/ \E period \in Periods : RacingRoom /\ DoCreateBatch(period)
    \/ \E b \in Existing : DoGenerate(b)
    \/ \E b \in Existing : DoLock(b)
    \/ \E b \in Existing : DoRelease(b)
    \/ \E b \in Existing : DoVoid(b)
    \/ \E op \in {"lock", "release", "void", "generate"}, b \in Existing : LoadBatch(op, b)
    \/ CommitLock
    \/ CommitRelease
    \/ CommitVoid
    \/ ReadGenerate
    \/ CommitGenerate
    \/ RacingRoom /\ BeginCreate
    \/ CommitCreate

Spec == Init /\ [][NextApproval]_vars

\* The users an administrator makes manager of alice
NewManagers == {"bob", "fay"}

\* The approval workflow while an administrator rearranges the reporting
\* lines of alice, the consultant of X and O.
NextHierarchy ==
    \/ NextApproval
    \/ \E m \in NewManagers : assign_manager("alice", m)
    \/ \E m \in NewManagers : change_manager("alice", m)
    \/ \E l \in ActiveLinesOf("alice") : deactivate_reporting_line(l)

SpecHierarchy == Init /\ [][NextHierarchy]_vars

\* Commission creation, sequential and with one call overtaken, while the
\* manager bob gets and loses a manager of his own.
NextCreate ==
    \/ \E who \in Sellers, reference \in ReferenceNumbers :
          CreationRoom(who) /\ DoCreateCommission(who, reference)
    \/ \E who \in Sellers, reference \in ReferenceNumbers :
          BeginCreateCommission(who, reference)
    \/ CommitCreateCommission /\ CreationRoom(req.actor)
    \/ assign_manager("bob", "fay")
    \/ \E l \in ActiveLinesOf("bob") : deactivate_reporting_line(l)

SpecCreate == Init /\ [][NextCreate]_vars

\* Chain resolution on any table of dated reporting lines; a call that has
\* begun runs on.
NextChain ==
    \/ \E l \in LineRows : InsertLine(l)
    \/ \E who \in Staff, d \in Dates : DoGetManager(who, d)
    \/ \E who \in Staff, d \in Dates, n \in MaxLevelsInputs : BeginResolve(who, d, n)
    \/ StepResolve

SpecChain == Init /\ [][NextChain]_vars /\ WF_vars(StepResolve)

\* The calculation applied to one triple of inputs.
NextCalc ==
    \E s \in SaleAmounts, r \in CommissionRates, g \in GstRates : DoCalculate(s, r, g)

SpecCalc == Init /\ [][NextCalc]_vars

\* The approval workflow with adjustments of its commissions.
NextAdjust ==
    \/ NextApproval
    \/ \E c \in Commissions, amount \in AdjustmentAmounts : DoCreateAdjustment(c, amount)

SpecAdjust == Init /\ [][NextAdjust]_vars

\* Payment execution on the batches the settlement engine releases, every
\* handler running on the copy it has just loaded.
NextPayment ==
    \/ DoApprove("X", "bob")
    \/ DoCreateBatch("OPEN")
    \/ \E b \in Existing : DoLock(b)
    \/ \E b \in Existing : DoRelease(b)
    \/ \E t \in TransactionIds, ref \in ExternalReferences : DoConfirm(t, ref)
    \/ \E t \in TransactionIds, reason \in FailureReasons : DoFail(t, reason)
    \/ \E t \in TransactionIds : DoRetry(t)
    \/ \E t \in TransactionIds : DoCancel(t)
    \/ \E b \in Existing, actual \in ActualAmounts : DoReconcile(b, actual)

SpecPayment == InitPayout /\ [][NextPayment]_vars

\* The administration of the dated reporting lines of every user.
NextLines ==
    \/ \E who \in Staff, m \in Staff, s \in Dates, e \in {NoDate} \cup Dates :
          AssignManagerAt(who, m, s, e)
    \/ \E who \in Staff, m \in Staff, t \in Dates : ChangeManagerAt(who, m, t)
    \/ \E l \in dated_lines, e \in Dates : DeactivateAt(l, e)

SpecLines == Init /\ [][NextLines]_vars

SpecPayout == InitPayout /\ [][NextPayout]_vars

SpecRace == InitPayout /\ [][NextRace]_vars

(***************************************************************************)
(* Properties of the approval workflow (specification Spec).               *)
(***************************************************************************)
Last(h) == h[Len(h)]

\* number of ApprovalHistory(APPROVE) rows of commission c in table h
ApproveRowCount(h, c) ==
    Cardinality({i \in DOMAIN h[c] : h[c][i].action = "APPROVE"})

RECURSIVE TotalApproveRows(_, _)
TotalApproveRows(h, S) ==
    IF S = {} THEN 0
    ELSE LET c == CHOOSE x \in S : TRUE
         IN  ApproveRowCount(h, c) + TotalApproveRows(h, S \ {c})

\* C7: of the approve requests for one submitted commission, concurrent ones
\* included, exactly one succeeds: no commission ever has more than one
\* ApprovalHistory(APPROVE) row, and an approve whose transaction runs when
\* another request has already approved the commission fails and writes
\* nothing.
C7_ExactlyOneApprove ==
    [][/\ \A c \in Commissions : ApproveRowCount(history', c) <= 1
       /\ (/\ req.op = "approve" /\ req'.op = "done"
           /\ commission[req.target].state = "approved")
             => (req'.outcome # "ok" /\ UNCHANGED commVars)]_vars

SubmittedOverrides(c) ==
    {o \in Commissions : parent_commission(o) = c /\ commission[o].state = "submitted"}

\* C8: a step that approves a base commission with N submitted overrides
\* writes exactly N+1 ApprovalHistory(APPROVE) rows, one for the base and one
\* for each override, and leaves the N overrides approved, in that same step.
C8_CascadeApprove ==
    [][\A c \in Commissions :
          (/\ commission_type(c) = "base"
           /\ ApproveRowCount(history', c) = ApproveRowCount(history, c) + 1)
          => /\ \A o \in SubmittedOverrides(c) :
                   /\ commission'[o].state = "approved"
                   /\ ApproveRowCount(history', o) = ApproveRowCount(history, o) + 1
             /\ TotalApproveRows(history', Commissions)
                   = TotalApproveRows(history, Commissions)
                        + Cardinality(SubmittedOverrides(c)) + 1]_vars

\* X was approved by the overtaken handler and its override O with it
C8_Witness ==
    /\ req.op = "done" /\ req.handler = "approve" /\ req.target = "X"
    /\ req.outcome = "ok"
    /\ commission["X"].state = "approved" /\ commission["O"].state = "approved"
    /\ Last(history["O"]).action = "APPROVE" /\ Last(history["O"]).notes = "auto"

\* C9: no commission has approved_by equal to its consultant, and an approve
\* whose actor is the commission's own consultant does not succeed, on the
\* current copy or on the copy a handler has loaded, admin or not.
C9_NoSelfApproval ==
    \A c \in Commissions :
        /\ commission[c].approved_by # consultant(c)
        /\ ApproveOutcome(c, consultant(c), commission[c]) # "ok"
        /\ (req.op = "approve" /\ req.target = c /\ req.actor = consultant(c))
              => ApproveOutcome(c, req.actor, req.mem) # "ok"
        /\ (/\ req.op = "done" /\ req.handler = "approve" /\ req.target = c
            /\ req.actor = consultant(c))
              => req.outcome # "ok"

\* root, an admin, has tried to approve its own submitted commission Y: the
\* handler ended with the validation error and Y is still submitted
C9_Witness ==
    /\ req.op = "done" /\ req.handler = "approve" /\ req.target = "Y"
    /\ req.actor = "root" /\ is_admin("root") /\ consultant("Y") = "root"
    /\ req.outcome = "validation_error"
    /\ commission["Y"].state = "submitted" /\ commission["Y"].approved_by = NoUser

\* C10: every step changes a commission's state only along draft->submitted,
\* rejected->submitted, submitted->approved, submitted->rejected and
\* approved->paid, and leaves state and history of a commission unchanged
\* when the state it is in does not allow the change.
C10_OnlyValidTransitions ==
    [][\A c \in Commissions :
          /\ commission'[c].state # commission[c].state
                => commission'[c].state \in VALID_TRANSITIONS(commission[c].state)
          /\ history'[c] # history[c]
                => Last(history'[c]).to_state \in VALID_TRANSITIONS(commission[c].state)]_vars

(***************************************************************************)
(* Properties of the settlement engine (specifications SpecPayout and      *)
(* SpecRace).                                                              *)
(***************************************************************************)
LinkCount(c) == Cardinality({li \in lineItems : li.commission = c})

\* C1: in every reachable state, concurrent create_batch_for_period and
\* generate_draft_payouts calls included, each commission is referenced by at
\* most one PayoutLineItem.
C1_AtMostOneLineItem == \A c \in Commissions : LinkCount(c) <= 1

\* a create_batch_for_period that read X as eligible lost the race for it:
\* its insert raised and X is linked once, to the batch that won
C1_Witness ==
    /\ req.op = "done" /\ req.handler = "create" /\ req.outcome = "integrity_error"
    /\ LinkCount("X") = 1

Released(b) == batch'[b].status = "RELEASED" /\ batch[b].status # "RELEASED"

\* C2: a step in which a batch becomes RELEASED leaves every payout of the
\* batch PAID and every commission linked through its line items paid; a
\* payout turns PAID, and a linked commission turns paid without a PAID
\* history row, only in such a step; a release that raises changes nothing.
C2_ReleaseAtomic ==
    [][/\ \A b \in BatchIds : Released(b) =>
            /\ \A p \in payouts' : p.batch = b => p.status = "PAID"
            /\ \A li \in lineItems' : li.batch = b => commission'[li.commission].state = "paid"
       /\ \A p \in payouts', q \in payouts :
            (/\ p.batch = q.batch /\ p.consultant = q.consultant
             /\ p.status = "PAID" /\ q.status # "PAID") => Released(p.batch)
       /\ \A c \in Commissions :
            (/\ commission'[c].state = "paid" /\ commission[c].state # "paid"
             /\ history'[c] = history[c])
               => \E li \in lineItems : li.commission = c /\ Released(li.batch)
       /\ (req.op = "release" /\ req'.op = "done" /\ req'.outcome # "ok")
            => UNCHANGED <<payVars, commVars>>]_vars

\* a LOCKED batch holding the commissions of two consultants was released
C2_Witness ==
    \E b \in BatchIds :
        /\ batch[b].status = "RELEASED"
        /\ Cardinality({p \in payouts : p.batch = b /\ p.status = "PAID"}) = 2
        /\ Cardinality({li \in lineItems : li.batch = b}) = 3
        /\ \A c \in Commissions : commission[c].state = "paid"

StatusEdges ==
    {<<"NONE", "DRAFT">>, <<"DRAFT", "LOCKED">>, <<"LOCKED", "RELEASED">>,
     <<"DRAFT", "VOID">>, <<"LOCKED", "VOID">>}

\* C3: under every interleaving of lock, release and void requests a batch's
\* status changes only along DRAFT->LOCKED, LOCKED->RELEASED, DRAFT->VOID and
\* LOCKED->VOID (after its creation as DRAFT); a RELEASED batch never
\* changes status and never loses a line item.
C3_StatusMachine ==
    [][\A b \in BatchIds :
          /\ batch'[b].status # batch[b].status
                => <<batch[b].status, batch'[b].status>> \in StatusEdges
          /\ batch[b].status = "RELEASED"
                => \A li \in lineItems : li.batch = b => li \in lineItems']_vars

Voided(b) == payoutHistory'[b] = Append(payoutHistory[b], "VOID")

Created(b) == batch[b].status = "NONE" /\ batch'[b].status = "DRAFT"

\* no commission was approved since batch a was created
NoneApprovedSince(a) ==
    \A c \in Commissions : commission[c].approved_at < batch[a].created_at

\* commissions of consultant g that are approved and have no line item
Unclaimed(g) ==
    {c \in Commissions : /\ consultant(c) = g /\ commission[c].state = "approved"
                         /\ \A li \in lineItems : li.commission # c}

\* C5: when batch A holds a line item for commission X and is DRAFT or
\* LOCKED, a batch B created afterwards, with no commission approved since
\* A's creation, has no line item for X and no payout for X's consultant.
C5_NoSecondClaim ==
    [][\A A, B \in BatchIds :
          (Created(B) /\ batch[A].status \in {"DRAFT", "LOCKED"} /\ NoneApprovedSince(A))
          => \A li \in lineItems : li.batch = A =>
                /\ \A k \in lineItems' : k.commission = li.commission => k.batch # B
                /\ \A p \in payouts' : ~(p.batch = B /\ p.consultant = li.consultant)]_vars

\* C5 as the code has it: B has no line item for X, which stays linked to A;
\* B has a payout for X's consultant exactly when other commissions of that
\* consultant were approved and unlinked at B's creation (approved since A's
\* creation or freed by the void of another batch), and then B's line items
\* for the consultant are those commissions.
C5_NoSecondClaimOfLinked ==
    [][\A A, B \in BatchIds :
          (Created(B) /\ batch[A].status \in {"DRAFT", "LOCKED"})
          => \A li \in lineItems : li.batch = A =>
                /\ li \in lineItems'
                /\ \A k \in lineItems' : k.commission = li.commission => k.batch # B
                /\ (\E p \in payouts' : p.batch = B /\ p.consultant = li.consultant)
                      <=> Unclaimed(li.consultant) # {}
                /\ {k.commission : k \in {x \in lineItems' :
                                           x.batch = B /\ x.consultant = li.consultant}}
                      = Unclaimed(li.consultant)]_vars

\* batch A, not released and not voided, holds X; a batch created after it
\* has no payout for alice, the consultant of X
C5_Witness ==
    \E A, B \in BatchIds :
        /\ batch[A].status \in {"DRAFT", "LOCKED"} /\ batch[B].status = "DRAFT"
        /\ batch[A].created_at < batch[B].created_at
        /\ \E li \in lineItems : li.batch = A /\ li.commission = "X"
        /\ \A p \in payouts : ~(p.batch = B /\ p.consultant = "alice")

NewLineItems(b) == {li \in lineItems' : li.batch = b /\ li \notin lineItems}

TotalsOf(P, b) ==
    {<<p.consultant, p.total_commission, p.net_amount>> : p \in {q \in P : q.batch = b}}

\* C6: a generate_draft_payouts call on an existing DRAFT batch, with no
\* commission approved since the batch was created (so none since the
\* previous call on the batch), creates no line item and leaves
\* total_commission and net_amount of every payout of the batch unchanged.
C6_SecondCallAddsNothing ==
    [][\A b \in BatchIds :
          (batch[b].status = "DRAFT" /\ NoneApprovedSince(b))
          => /\ NewLineItems(b) = {}
             /\ TotalsOf(payouts', b) = TotalsOf(payouts, b)]_vars

\* C6 as the code has it: a call adds line items only for commissions that
\* are approved and unlinked when it runs, takes all of them, and adds
\* exactly their amounts to the totals; so a call that follows another with
\* no commission approved and no batch voided in between adds nothing.
C6_CallAddsUnclaimedOnly ==
    [][\A b \in BatchIds :
          /\ \A li \in NewLineItems(b) : li.commission \in Unclaimed(li.consultant)
          /\ \A p \in payouts' : p.batch = b =>
                LET old == {q \in payouts : q.batch = b /\ q.consultant = p.consultant}
                    was == IF old = {} THEN 0 ELSE (CHOOSE q \in old : TRUE).total_commission
                    new == {li.commission : li \in {x \in NewLineItems(b) :
                                                        x.consultant = p.consultant}}
                IN  /\ p.total_commission = was + SumAmounts(new)
                    /\ p.net_amount = p.total_commission
          /\ NewLineItems(b) # {}
                => \A g \in Users : \A c \in Unclaimed(g) :
                      \E li \in NewLineItems(b) : li.commission = c]_vars

\* a later call on DRAFT batch b added X, approved after b was created, to
\* the payout that held the override O since the creation
C6_Witness ==
    \E b \in BatchIds :
        /\ batch[b].status = "DRAFT"
        /\ commission["X"].approved_at >= batch[b].created_at
        /\ commission["O"].approved_at < batch[b].created_at
        /\ \E li \in lineItems : li.batch = b /\ li.commission = "X"
        /\ \E li \in lineItems : li.batch = b /\ li.commission = "O"
        /\ \E p \in payouts : p.batch = b /\ p.consultant = "alice" /\ p.total_commission = 6

\* C11: once a commission is in state paid, no step changes any of its
\* fields (state, approved_by, approved_at, paid_at).
C11_PaidImmutable ==
    [][\A c \in Commissions :
          commission[c].state = "paid" => commission'[c] = commission[c]]_vars

\* C12: approve or reject of a submitted commission succeeds only for an
\* admin, an active reporting-line manager of the consultant, the user in
\* the manager field or the assigned approver: every APPROVE or REJECT row
\* a caller writes (the cascade's rows carry the note of the base) names
\* such an actor, and an overtaken call by any other actor (a reject with
\* its reason given) ends with the authorization error and changes
\* neither commissions, approval records nor history.
C12_Permitted(c, a) ==
    \/ is_admin(a)
    \/ <<consultant(c), a>> \in reporting_line
    \/ manager(c) = a
    \/ (approval[c].exists /\ approval[c].assigned_approver = a)

C12_OnlyAuthorizedDecide ==
    [][/\ \A c \in Commissions :
            (/\ Len(history'[c]) > Len(history[c])
             /\ Last(history'[c]).action \in {"APPROVE", "REJECT"}
             /\ Last(history'[c]).notes # "auto")
            => C12_Permitted(c, Last(history'[c]).actor)
       /\ (/\ req.op \in {"approve", "reject"}
           /\ req'.op = "done"
           /\ req.mem.state = "submitted"
           /\ req.op = "reject" => req.reason # ""
           /\ ~C12_Permitted(req.target, req.actor))
          => (req'.outcome = "auth_denied" /\ UNCHANGED commVars)]_vars

C12_Witness ==
    /\ req.op = "done"
    /\ req.handler \in {"approve", "reject"}
    /\ req.outcome = "auth_denied"
    /\ commission[req.target].state = "submitted"
    /\ \E c \in Commissions : \E i \in 1..Len(history[c]) :
          history[c][i].action = "REJECT" /\ history[c][i].actor = "bob"

\* C13: markPaid on an approved commission succeeds exactly when the actor
\* holds an admin or a finance role; for every other actor it ends with the
\* authorization error and changes neither commission nor history.
C13_AdminOrFinancePays ==
    [][(/\ req.op = "mark_paid"
        /\ req'.op = "done"
        /\ req.mem.state = "approved"
        /\ commission[req.target].state = "approved")
       => IF is_admin(req.actor) \/ is_finance(req.actor)
          THEN /\ req'.outcome = "ok"
               /\ commission'[req.target].state = "paid"
          ELSE /\ req'.outcome = "auth_denied"
               /\ UNCHANGED commVars]_vars

\* C14: reject with an empty reason ends with the validation error and
\* writes nothing, whoever calls it and whatever the commission's state; no
\* REJECT row has empty notes; a successful reject appends exactly one
\* REJECT row, to its commission's history, whose notes are the reason.
C14_RejectNeedsReason ==
    [][/\ (req.op = "reject" /\ req'.op = "done" /\ req.reason = "")
          => (req'.outcome = "validation_error" /\ UNCHANGED commVars)
       /\ \A c \in Commissions :
            (Len(history'[c]) > Len(history[c]) /\ Last(history'[c]).action = "REJECT")
            => Last(history'[c]).notes # ""
       /\ (req.op = "reject" /\ req'.op = "done" /\ req'.outcome = "ok")
          => history' = [history EXCEPT ![req.target] =
                Append(@, HistoryRow("REJECT", req.actor, req.mem.state,
                                     "rejected", req.reason))]]_vars

\* an empty-reason reject by an actor who may not decide, on a commission
\* that is no longer submitted, next to a reject that went through
C14_Witness ==
    /\ req.op = "done" /\ req.handler = "reject"
    /\ req.outcome = "validation_error"
    /\ ~Authorized(req.target, req.actor)
    /\ commission[req.target].state = "approved"
    /\ \E c \in Commissions :
          /\ commission[c].state = "rejected"
          /\ Last(history[c]).action = "REJECT" /\ Last(history[c]).notes = "reason"

\* C15: while a commission stays submitted, a change of the reporting lines
\* (a line deactivated, a manager assigned or replaced) leaves the set of
\* users who may approve or reject it as it was.
MayDecide(c) == {a \in Users : Authorized(c, a)}

C15_HierarchyChangeKeepsApprovers ==
    [][reporting_line' # reporting_line
       => \A c \in Commissions :
             commission[c].state = "submitted" => MayDecide(c)' = MayDecide(c)]_vars

\* C16: lockBatch on a DRAFT batch without payouts ends with the validation
\* error, leaves the batch DRAFT and writes no history row; and every
\* LOCKED or RELEASED batch has at least one Payout.
C16_LockedHasPayouts ==
    \A b \in BatchIds :
        batch[b].status \in {"LOCKED", "RELEASED"} => BatchPayouts(b) # {}

C16_EmptyLockRefused ==
    [][/\ (/\ req.op = "lock" /\ req'.op = "done"
           /\ req.mem.status = "DRAFT"
           /\ BatchPayouts(req.target) = {})
          => (req'.outcome = "validation_error" /\ UNCHANGED <<payVars, commVars>>)
       /\ C16_LockedHasPayouts']_vars

\* an empty DRAFT batch whose lock was refused, next to a batch that was
\* locked with its payouts
C16_Witness ==
    /\ req.op = "done" /\ req.handler = "lock"
    /\ req.outcome = "validation_error"
    /\ batch[req.target].status = "DRAFT"
    /\ payoutHistory[req.target] = <<"CREATE">>
    /\ \E b \in BatchIds : batch[b].status = "LOCKED" /\ BatchPayouts(b) # {}

\* C17: lockBatch goes through only on a DRAFT batch, releaseBatch only on
\* a LOCKED batch, voidBatch only on a DRAFT or LOCKED batch; a call on a
\* batch in any other status (the status the handler loaded being the
\* stored one) ends with the state error and changes no batch, payout, line
\* item, commission or history row.
LegalStatuses(op) ==
    CASE op = "lock" -> {"DRAFT"}
      [] op = "release" -> {"LOCKED"}
      [] op = "void" -> {"DRAFT", "LOCKED"}

C17_IllegalCallsRefused ==
    [][(/\ req.op \in {"lock", "release", "void"}
        /\ req'.op = "done"
        /\ req.mem = batch[req.target])
       => IF req.mem.status \in LegalStatuses(req.op)
          THEN req'.outcome \in {"ok", "validation_error"}
          ELSE /\ req'.outcome = "state_error"
               /\ UNCHANGED <<payVars, commVars>>]_vars

\* C18: createBatchForPeriod is all-or-nothing.  A batch row appears only
\* for an OPEN period and only together with its CREATE history row, its
\* payouts and their line items, the step writing rows of no other batch;
\* a call that fails (closed period, or a commission lost to a batch that
\* was generated meanwhile) leaves every table as it was; and no payout,
\* line item or history row belongs to a batch that does not exist.
RowsOnlyOfBatches ==
    /\ \A p \in payouts : batch[p.batch].status # "NONE"
    /\ \A li \in lineItems : batch[li.batch].status # "NONE"
    /\ \A b \in BatchIds : batch[b].status = "NONE" => payoutHistory[b] = <<>>

C18_CreateAllOrNothing ==
    [][/\ \A b \in BatchIds :
            (batch[b].status = "NONE" /\ batch'[b].status # "NONE")
            => /\ batch'[b].status = "DRAFT" /\ batch'[b].period = "OPEN"
               /\ payoutHistory'[b] = <<"CREATE">>
               /\ \A p \in payouts' \ payouts : p.batch = b
               /\ \A li \in lineItems' \ lineItems : li.batch = b
               /\ \A li \in lineItems' \ lineItems : ~HasLineItem(li.commission)
               /\ \A p \in payouts' \ payouts :
                     \E li \in lineItems' : li.batch = b /\ li.consultant = p.consultant
               /\ \A o \in BatchIds \ {b} :
                     batch'[o] = batch[o] /\ payoutHistory'[o] = payoutHistory[o]
       /\ (req.op = "create" /\ req'.op = "done" /\ req'.outcome # "ok")
          => UNCHANGED <<payVars, commVars>>
       /\ (req.op = "create" /\ req'.op = "done" /\ req'.outcome = "ok")
          => (batch[req'.target].status = "NONE" /\ batch'[req'.target].status = "DRAFT")
       /\ RowsOnlyOfBatches']_vars

\* a creation that lost a commission to the batch generated meanwhile and
\* left no row behind
C18_Witness ==
    /\ req.op = "done" /\ req.handler = "create"
    /\ req.outcome = "integrity_error"
    /\ batch[req.target].status = "NONE"
    /\ \E b \in BatchIds : batch[b].status = "DRAFT" /\ BatchLineItems(b) # {}

\* C19: no two commissions share a reference_number, and a
\* createBaseWithOverrides call whose reference number a commission already
\* carries fails and inserts nothing, also when that commission was
\* committed after the call had validated its reference.
RowsWithReference(reference) ==
    {i \in DOMAIN new_commissions : new_commissions[i].reference_number = reference}

UniqueReferences ==
    /\ \A i, j \in DOMAIN new_commissions :
          i # j => new_commissions[i].reference_number # new_commissions[j].reference_number
    /\ \A i \in DOMAIN new_commissions, c \in Commissions :
          new_commissions[i].reference_number # reference_number(c)

C19_UniqueReference ==
    [][/\ UniqueReferences'
       /\ (/\ req.op = "create_commission" /\ req'.op = "done"
           /\ (RowsWithReference(req.target) # {}
               \/ \E c \in Commissions : reference_number(c) = req.target))
          => (req'.outcome # "ok" /\ UNCHANGED new_commissions)]_vars

\* the loser of two calls with the same reference number: refused by the
\* unique index, the winner's base being the only row with that reference
C19_Witness ==
    /\ req.op = "done" /\ req.handler = "create_commission"
    /\ req.outcome = "integrity_error"
    /\ Cardinality(RowsWithReference(req.target)) = 1
    /\ \E i \in RowsWithReference(req.target) :
          new_commissions[i].commission_type = "base"

\* C20: createBaseWithOverrides writes all its rows or none: a step that
\* inserts commissions inserts the base and every override of one call, and
\* a call that fails, on its base reference or on a derived override
\* reference, leaves the table as it was.
C20_NoPartialWrites ==
    [][/\ new_commissions' # new_commissions
          => \E who \in Sellers, reference \in ReferenceNumbers :
                new_commissions' = new_commissions \o RowsToInsert(who, reference)
       /\ (req.op = "create_commission" /\ req'.op = "done" /\ req'.outcome # "ok")
          => UNCHANGED new_commissions]_vars

\* a call with reference "A" that failed on its derived "A-OVR-L1", which
\* another base carries, and left no base "A" behind
C20_Witness ==
    /\ req.op = "done" /\ req.handler = "create_commission"
    /\ req.outcome = "validation_error"
    /\ req.target = <<"A">>
    /\ RowsWithReference(<<"A">>) = {}
    /\ \E i \in RowsWithReference(<<"A", "-OVR-L1">>) :
          new_commissions[i].commission_type = "base"

\* C21: a successful createBaseWithOverrides inserts exactly one base
\* commission (draft, no manager) followed by exactly one override per entry
\* of the resolved chain: draft, with the entry's manager and level, the
\* base as parent, the consultant of the base, rate 2% at level 1 and 1% at
\* level 2 (0% above), and the base reference followed by the level suffix;
\* 1 + chain length rows in all.
C21_Inserted == SubSeq(new_commissions', Len(new_commissions) + 1, Len(new_commissions'))

C21_RowsOfOneCall ==
    [][new_commissions' # new_commissions
       => LET rows == C21_Inserted
              base == rows[1]
              chain == resolve_override_chain(base.consultant)
          IN  /\ SubSeq(new_commissions', 1, Len(new_commissions)) = new_commissions
              /\ Len(rows) = 1 + Len(chain)
              /\ base.commission_type = "base" /\ base.state = "draft"
              /\ base.manager = NoUser
              /\ \A k \in 1..Len(chain) :
                    LET ovr == rows[k + 1] IN
                    /\ ovr.commission_type = "override" /\ ovr.state = "draft"
                    /\ ovr.manager = chain[k].manager
                    /\ ovr.override_level = chain[k].level
                    /\ ovr.parent_commission = base.reference_number
                    /\ ovr.consultant = base.consultant
                    /\ ovr.commission_rate =
                          (CASE ovr.override_level = 1 -> 200
                             [] ovr.override_level = 2 -> 100
                             [] OTHER -> 0)
                    /\ ovr.reference_number =
                          base.reference_number
                             \o <<IF ovr.override_level = 1 THEN "-OVR-L1" ELSE "-OVR-L2">>]_vars

\* a base of alice with its level-1 override for bob and its level-2
\* override for fay
C21_Witness ==
    \E i \in DOMAIN new_commissions :
        /\ i + 2 \in DOMAIN new_commissions
        /\ new_commissions[i].commission_type = "base"
        /\ new_commissions[i].consultant = "alice"
        /\ new_commissions[i + 1].manager = "bob"
        /\ new_commissions[i + 1].commission_rate = 200
        /\ new_commissions[i + 2].manager = "fay"
        /\ new_commissions[i + 2].commission_rate = 100
        /\ new_commissions[i + 2].parent_commission = new_commissions[i].reference_number

(***************************************************************************)
(* C22: on any reporting-line data, management cycles included,            *)
(* resolve_override_chain returns: its chain has at most max_levels        *)
(* entries (MAX_OVERRIDE_LEVELS when max_levels is not given), their       *)
(* levels are 1, 2, ... without gaps, no entry's manager is the consultant *)
(* the chain was asked for, and the chain is empty when no reporting line  *)
(* of the consultant covers the date.                                      *)
(***************************************************************************)
C22_Resolving == call.op = "resolve_override_chain"

C22_NoManagerAtDate ==
    ~\E l \in dated_lines :
        /\ l.consultant = call.consultant
        /\ l.start_date <= call.transaction_date
        /\ (l.end_date = NoDate \/ l.end_date >= call.transaction_date)

C22_ChainShape ==
    C22_Resolving =>
        /\ Len(call.override_chain) <=
               (IF call.max_levels = DefaultLevels THEN 2 ELSE call.max_levels)
        /\ \A k \in 1..Len(call.override_chain) :
               /\ call.override_chain[k].level = k
               /\ call.override_chain[k].manager # call.consultant
               /\ call.override_chain[k].manager \in Staff
        /\ (call.returned /\ C22_NoManagerAtDate) => call.override_chain = <<>>

C22_ChainTerminates ==
    /\ []C22_ChainShape
    /\ (C22_Resolving ~> (C22_Resolving /\ call.returned))

\* a chain of three levels has gone round a management cycle that does not
\* hold the consultant, and the call has returned
C22_Witness ==
    /\ C22_Resolving /\ call.returned
    /\ Len(call.override_chain) = 3
    /\ call.override_chain[1].manager = call.override_chain[3].manager

(***************************************************************************)
(* C23: get_manager_at_date(consultant, date) returns the manager of a     *)
(* reporting line of the consultant that covers the date (start_date <=    *)
(* date, end_date null or >= date), one with the latest start_date when    *)
(* several cover it, and None when none covers it; entry k of an override  *)
(* chain is that answer for entry k-1 (the consultant for k = 1) at the    *)
(* date of the call.                                                       *)
(***************************************************************************)
C23_Covering(who, d) ==
    {l \in dated_lines : /\ l.consultant = who
                         /\ l.start_date <= d
                         /\ (l.end_date = NoDate \/ l.end_date >= d)}

C23_IsManagerAt(who, d, answer) ==
    IF C23_Covering(who, d) = {}
    THEN answer = NoUser
    ELSE \E l \in C23_Covering(who, d) :
            /\ l.manager = answer
            /\ \A k \in C23_Covering(who, d) : k.start_date <= l.start_date

C23_ManagerAtDate ==
    /\ call.op = "get_manager_at_date"
          => C23_IsManagerAt(call.consultant, call.transaction_date, call.result)
    /\ call.op = "resolve_override_chain"
          => \A k \in 1..Len(call.override_chain) :
                C23_IsManagerAt(IF k = 1 THEN call.consultant
                                ELSE call.override_chain[k - 1].manager,
                                call.transaction_date,
                                call.override_chain[k].manager)

\* a returned chain of two entries whose first manager had to be chosen among
\* covering lines of different start dates, the consultant having a line
\* that does not cover the date as well
C23_Witness ==
    /\ call.op = "resolve_override_chain" /\ call.returned
    /\ Len(call.override_chain) = 2
    /\ \E l \in dated_lines :
          /\ l.consultant = call.consultant
          /\ l.manager # call.override_chain[1].manager
    /\ \E l \in dated_lines :
          l.end_date # NoDate /\ l.end_date < call.transaction_date

(***************************************************************************)
(* C24: calculate_base_commission returns sale / (1 + gst/100) * rate/100  *)
(* (sale * rate/100 when gst is 0) rounded to cents half-up, a tie going   *)
(* up; 1100.00 at 5.00% with 10.00% GST gives 50.00 and 3333.33 at 7.77%   *)
(* without GST gives 259.00.                                               *)
(***************************************************************************)
C24_Calculated == call.op = "calculate_base_commission"

C24_HalfUp(num, den) ==
    IF 2 * (num % den) >= den THEN (num \div den) + 1 ELSE num \div den

C24_RoundsHalfUp ==
    C24_Calculated =>
        /\ call.result =
              C24_HalfUp(call.sale_amount * call.commission_rate,
                         IF call.gst_rate = 0 THEN 10000 ELSE 10000 + call.gst_rate)
        /\ (call.sale_amount = 110000 /\ call.commission_rate = 500
                /\ call.gst_rate = 1000) => call.result = 5000
        /\ (call.sale_amount = 333333 /\ call.commission_rate = 777
                /\ call.gst_rate = 0) => call.result = 25900

(***************************************************************************)
(* C25: create_adjustment inserts an adjustment only for an original       *)
(* commission in state paid and a non-zero amount, and otherwise inserts   *)
(* nothing; in every reachable state the adjustment_for target of every    *)
(* adjustment commission is in state paid.                                 *)
(***************************************************************************)
\* the call itself: a step that changes the table inserts one row, for a
\* commission whose row is paid, with a non-zero amount
C25_CreatedOnlyForPaid ==
    [][adjustments' # adjustments
          => /\ Len(adjustments') = Len(adjustments) + 1
             /\ SubSeq(adjustments', 1, Len(adjustments)) = adjustments
             /\ LET adjustment == adjustments'[Len(adjustments')]
                IN  /\ commission[adjustment.adjustment_for].state = "paid"
                    /\ adjustment.calculated_amount # 0]_vars

\* C25, every reachable state: the target of every adjustment is paid
C25_TargetsStayPaid ==
    \A k \in 1..Len(adjustments) :
        commission[adjustments[k].adjustment_for].state = "paid"

(***************************************************************************)
(* C26: when approve, reject or markPaid fails for want of authorization   *)
(* alone, the response the caller receives differs from the response to an *)
(* illegal transition.                                                     *)
(***************************************************************************)
C26_AuthFailure ==
    /\ req.op = "done"
    /\ req.handler \in {"approve", "reject", "mark_paid"}
    /\ req.outcome = "auth_denied"

C26_AuthOutcomeDistinct ==
    C26_AuthFailure =>
        ApprovalErrorStatus(req.handler, req.outcome)
            # ApprovalErrorStatus(req.handler, "invalid_transition")

(***************************************************************************)
(* C27: retry_payment on a FAILED PaymentTransaction with retry_count      *)
(* below 3 appends a PENDING PaymentTransaction of the same batch, with    *)
(* retry_count one higher and the failed row as parent_transaction, and    *)
(* leaves the failed row as it was; on any other transaction it fails and  *)
(* the table stays as it was.                                              *)
(***************************************************************************)
C27_Retried == call'.op = "retry_payment" /\ call' # call

C27_RetryCreatesTransaction ==
    [][C27_Retried =>
          LET t == call'.transaction
              failed == payment_transaction[t]
          IN  IF failed.status = "FAILED" /\ failed.retry_count < 3
              THEN /\ Len(payment_transaction') = Len(payment_transaction) + 1
                   /\ \A o \in 1..Len(payment_transaction) :
                          payment_transaction'[o] = payment_transaction[o]
                   /\ LET new == payment_transaction'[Len(payment_transaction')]
                      IN  /\ new.status = "PENDING"
                          /\ new.batch = failed.batch
                          /\ new.retry_count = failed.retry_count + 1
                          /\ new.parent_transaction = t
              ELSE /\ call'.outcome # "ok"
                   /\ payment_transaction' = payment_transaction]_vars

(***************************************************************************)
(* C28: a confirm_payment that succeeds on a PENDING or PROCESSING         *)
(* PaymentTransaction leaves it COMPLETED and every Payout of its batch    *)
(* with paid_at and payment_reference stamped; confirm_payment on a        *)
(* COMPLETED transaction raises no error and changes neither the           *)
(* transaction nor any Payout row.                                         *)
(***************************************************************************)
C28_Confirmed == call'.op = "confirm_payment" /\ call' # call

C28_ConfirmIdempotent ==
    [][C28_Confirmed =>
          LET t == call'.transaction
              before == payment_transaction[t]
              after == payment_transaction'[t]
          IN  /\ (before.status \in {"PENDING", "PROCESSING"} /\ call'.outcome = "ok")
                    => /\ after.status = "COMPLETED"
                       /\ after.external_reference # "null"
                       /\ \A p \in payouts' :
                             p.batch = before.batch
                                => /\ p.paid_at = "confirm_payment"
                                   /\ p.payment_reference = after.external_reference
              /\ before.status = "COMPLETED"
                    => /\ call'.outcome = "ok"
                       /\ payment_transaction' = payment_transaction
                       /\ payouts' = payouts]_vars

(***************************************************************************)
(* C29: create_reconciliation records as expected amount the sum of        *)
(* net_amount over the Payouts of the batch, with status DISCREPANCY       *)
(* exactly when the reported actual amount differs from it and RECONCILED  *)
(* when they are equal, whatever the actual amount, 0 included.            *)
(***************************************************************************)
C29_Reconciled == call'.op = "create_reconciliation" /\ call' # call

RECURSIVE C29_SumNet(_)
C29_SumNet(P) ==
    IF P = {} THEN 0
    ELSE LET p == CHOOSE x \in P : TRUE IN p.net_amount + C29_SumNet(P \ {p})

C29_DiscrepancyFlagged ==
    [][C29_Reconciled =>
          LET expected == C29_SumNet({p \in payouts : p.batch = call'.batch})
          IN  /\ call'.expected_amount = expected
              /\ call'.status = (IF call'.actual_amount = expected
                                 THEN "RECONCILED" ELSE "DISCREPANCY")]_vars

(***************************************************************************)
(* C30: the step that makes a batch RELEASED inserts exactly one           *)
(* PaymentTransaction for it, PENDING, with total_amount the sum of the    *)
(* totals of the batch's payouts, and no other step inserts one; in every  *)
(* reachable state a batch has at most one PaymentTransaction and only a   *)
(* RELEASED batch has one.                                                 *)
(***************************************************************************)
C30_TransactionCount(b) ==
    Cardinality({t \in 1..Len(payment_transaction) : payment_transaction[t].batch = b})

\* the release itself, and the saves after it
C30_ReleaseCreatesTransaction ==
    [][/\ Len(payment_transaction') >= Len(payment_transaction)
       /\ \A b \in BatchIds :
            LET new == {t \in (Len(payment_transaction) + 1)..Len(payment_transaction') :
                            payment_transaction'[t].batch = b}
            IN  IF batch'[b].status = "RELEASED" /\ batch[b].status # "RELEASED"
                   /\ C30_TransactionCount(b) = 0
                THEN /\ Cardinality(new) = 1
                     /\ \A t \in new :
                          /\ payment_transaction'[t].status = "PENDING"
                          /\ payment_transaction'[t].total_amount =
                                C29_SumNet({p \in payouts : p.batch = b})
                ELSE new = {}]_vars

\* C30, every reachable state
C30_OneTransactionPerReleasedBatch ==
    \A b \in BatchIds :
        /\ C30_TransactionCount(b) <= 1
        /\ C30_TransactionCount(b) = 1 => batch[b].status = "RELEASED"

(***************************************************************************)
(* Properties of generate_draft_payouts, the cascade, the approval record, *)
(* locked batches, voided batches and the history (C31 to C39).            *)
(***************************************************************************)
\* commissions in state approved with no line item
C31_Pool ==
    {c \in Commissions : /\ commission[c].state = "approved"
                         /\ \A li \in lineItems : li.commission # c}

\* C31: a generate_draft_payouts that runs on a DRAFT batch (on its own or
\* inside create_batch_for_period) links every commission that was approved
\* with no line item by exactly one new line item, whose amount is the
\* commission's calculated_amount, to the batch's payout of the commission's
\* consultant; the line items of every other commission stay as they were;
\* and the batch has at most one payout per consultant.
C31_GenerateLinksPool ==
    [][\A b \in BatchIds :
          (batch'[b].status = "DRAFT" /\ NewLineItems(b) # {})
          => /\ \A c \in C31_Pool :
                   /\ \E li \in NewLineItems(b) :
                         /\ li.commission = c
                         /\ li.amount = calculated_amount(c)
                         /\ li.consultant = consultant(c)
                         /\ \E p \in payouts' : p.batch = b /\ p.consultant = li.consultant
                   /\ Cardinality({li \in lineItems' : li.commission = c}) = 1
             /\ \A c \in Commissions \ C31_Pool :
                   {li \in lineItems' : li.commission = c}
                      = {li \in lineItems : li.commission = c}
             /\ \A p, q \in payouts' :
                   (p.batch = b /\ q.batch = b /\ p.consultant = q.consultant) => p = q]_vars

\* a batch was created empty, X was approved with its override O, and a
\* call on the DRAFT batch linked both to the one payout of alice; Y, still
\* submitted, has no line item
C31_Witness ==
    \E b \in BatchIds :
        /\ batch[b].status = "DRAFT"
        /\ \A c \in {"X", "O"} :
              /\ commission[c].approved_at >= batch[b].created_at
              /\ \E li \in lineItems : li.batch = b /\ li.commission = c
                                        /\ li.amount = calculated_amount(c)
        /\ Cardinality({p \in payouts : p.batch = b}) = 1
        /\ \E p \in payouts : p.batch = b /\ p.consultant = "alice" /\ p.total_commission = 6
        /\ commission["Y"].state = "submitted"
        /\ \A li \in lineItems : li.commission # "Y"

\* the actor may decide on commission c: admin, active reporting-line manager
\* of its consultant, the user in its manager field or its assigned approver
C32_AuthorizedFor(c, a) ==
    \/ is_admin(a)
    \/ <<consultant(c), a>> \in reporting_line
    \/ manager(c) = a
    \/ (approval[c].exists /\ approval[c].assigned_approver = a)

\* C32: an approve of a submitted base commission by an actor who is
\* authorized for the base never ends with the authorization error, whoever
\* is the manager or the assigned approver of its overrides; when it
\* succeeds, every override that was submitted is approved by that actor in
\* the same step.
C32_CascadeNotRefused ==
    [][(/\ req.op = "approve" /\ req'.op = "done"
        /\ commission_type(req.target) = "base"
        /\ req.mem.state = "submitted"
        /\ C32_AuthorizedFor(req.target, req.actor))
       => /\ req'.outcome # "auth_denied"
          /\ req'.outcome = "ok"
                => \A o \in SubmittedOverrides(req.target) :
                      /\ commission'[o].state = "approved"
                      /\ commission'[o].approved_by = req.actor]_vars

\* fay, made manager of alice after the commissions were created, approved X:
\* the override O, whose manager and assigned approver is bob, was approved
\* with it
C32_Witness ==
    /\ req.op = "done" /\ req.handler = "approve" /\ req.target = "X"
    /\ req.actor = "fay" /\ req.outcome = "ok"
    /\ commission["O"].state = "approved" /\ commission["O"].approved_by = "fay"
    /\ manager("O") # "fay" /\ approval["O"].assigned_approver # "fay"
    /\ ~is_admin("fay")

\* the step appended a SUBMIT row to the history of c
C33_Submitted(c) ==
    /\ Len(history'[c]) = Len(history[c]) + 1
    /\ Last(history'[c]).action = "SUBMIT"

\* C33: the CommissionApproval record of a commission comes into being in
\* the step of its first submit, with assigned_approver equal to the
\* commission's manager field; the record never disappears; an
\* assigned_approver that is set is changed by no step, a later submit, a
\* resubmission after a rejection and a change of the reporting lines
\* included; and after every submit the assigned approver is the manager
\* field.
C33_ApproverCapturedOnce ==
    [][\A c \in Commissions :
          /\ (~approval[c].exists /\ approval'[c].exists)
                => (/\ C33_Submitted(c)
                    /\ history[c] = <<>>
                    /\ approval'[c].assigned_approver = manager(c))
          /\ approval[c].exists => approval'[c].exists
          /\ approval[c].assigned_approver # NoUser
                => approval'[c].assigned_approver = approval[c].assigned_approver
          /\ C33_Submitted(c)
                => (approval'[c].exists /\ approval'[c].assigned_approver = manager(c))
          /\ reporting_line' # reporting_line => approval' = approval]_vars

\* the override O was submitted, rejected and submitted again after fay had
\* replaced bob as the manager of alice: its assigned approver is still bob
C33_Witness ==
    /\ Len(history["O"]) = 3
    /\ history["O"][1].action = "SUBMIT" /\ history["O"][2].action = "REJECT"
    /\ history["O"][3].action = "SUBMIT"
    /\ reporting_line = {<<"alice", "fay">>, <<"root", "bob">>}
    /\ approval["O"].exists /\ approval["O"].assigned_approver = "bob"
    /\ commission["O"].state = "submitted"

C34_LineItemsOf(L, b) == {li \in L : li.batch = b}

\* C34: while a batch stays LOCKED no line item is added to it or removed
\* from it and no total of its payouts changes; no step adds a line item to
\* a batch that is not DRAFT or changes a total of its payouts; and a
\* generate_draft_payouts whose inserts run when the batch is not DRAFT ends
\* with the state error and writes nothing.
C34_LockedBatchFrozen ==
    [][/\ \A b \in BatchIds :
            (batch[b].status = "LOCKED" /\ batch'[b].status = "LOCKED")
            => /\ C34_LineItemsOf(lineItems', b) = C34_LineItemsOf(lineItems, b)
               /\ TotalsOf(payouts', b) = TotalsOf(payouts, b)
       /\ \A b \in BatchIds :
            batch[b].status \notin {"NONE", "DRAFT"}
            => /\ C34_LineItemsOf(lineItems', b) \subseteq C34_LineItemsOf(lineItems, b)
               /\ TotalsOf(payouts', b) = TotalsOf(payouts, b)
       /\ (/\ req.op = "generate_read" /\ req'.op = "done"
           /\ batch[req.target].status # "DRAFT")
          => (req'.outcome = "state_error" /\ UNCHANGED payVars)]_vars

\* commissions in state approved with no line item, in table L
C35_Free(L) ==
    {c \in Commissions : /\ commission[c].state = "approved"
                         /\ \A li \in L : li.commission # c}

C35_Live == {"DRAFT", "LOCKED", "RELEASED"}

\* C35: a void_batch that succeeds leaves every commission the batch held
\* that is approved with no line item; and a create_batch_for_period that
\* succeeds after a batch was voided links every commission that is approved
\* with no line item to the new batch, so that every approved commission is
\* then linked to a DRAFT, LOCKED or RELEASED batch.
C35_FreedAreReclaimed ==
    [][/\ \A A \in BatchIds : Voided(A) =>
            \A li \in lineItems : li.batch = A =>
                (commission[li.commission].state = "approved"
                    => li.commission \in C35_Free(lineItems'))
       /\ \A B \in BatchIds :
            (Created(B) /\ \E A \in BatchIds : batch[A].status = "VOID")
            => /\ \A c \in C35_Free(lineItems) :
                     \E li \in lineItems' : li.commission = c /\ li.batch = B
               /\ \A c \in Commissions :
                     commission'[c].state = "approved"
                     => \E li \in lineItems' :
                           /\ li.commission = c
                           /\ batch'[li.batch].status \in C35_Live]_vars

\* batch A, LOCKED with the line item of X, was voided; the batch B created
\* after it holds X, which is still approved, and A keeps its payout
C35_Witness ==
    \E A, B \in BatchIds :
        /\ batch[A].status = "VOID" /\ batch[B].status = "DRAFT"
        /\ batch[A].created_at < batch[B].created_at
        /\ payoutHistory[A] = <<"CREATE", "LOCK", "VOID">>
        /\ payoutHistory[B] = <<"CREATE">>
        /\ commission["X"].state = "approved"
        /\ commission["X"].approved_at < batch[A].created_at
        /\ \E p \in payouts : p.batch = A /\ p.consultant = "alice" /\ p.total_commission >= 5
        /\ \E li \in lineItems : li.batch = B /\ li.commission = "X"

\* C36: after every step every commission linked by a line item to a DRAFT
\* or LOCKED batch is in state approved, and a step that releases a batch
\* finds every commission of the batch in state approved: it pays no
\* rejected commission and none that mark_as_paid has paid already.
C36_LinkedAreApproved ==
    [][/\ \A li \in lineItems' :
            batch'[li.batch].status \in {"DRAFT", "LOCKED"}
            => commission'[li.commission].state = "approved"
       /\ \A b \in BatchIds : Released(b) =>
            \A li \in lineItems : li.batch = b =>
                commission[li.commission].state = "approved"]_vars

\* C37: the ApprovalHistory rows of every commission form an unbroken chain
\* from draft to the commission's current state: the first row starts at
\* draft, every later row starts where the row before it ended, and the
\* last row ends at the current state (a commission without rows is draft);
\* so every paid commission has a row that ends at paid.
C37_HistoryChain ==
    \A c \in Commissions :
        LET h == history[c] IN
        /\ h = <<>> => commission[c].state = "draft"
        /\ h # <<>> => /\ h[1].from_state = "draft"
                       /\ Last(h).to_state = commission[c].state
        /\ \A i \in 2..Len(h) : h[i].from_state = h[i - 1].to_state
        /\ commission[c].state = "paid"
              => \E i \in 1..Len(h) : h[i].to_state = "paid"

RECURSIVE C38_SumOfAmounts(_)
C38_SumOfAmounts(L) ==
    IF L = {} THEN 0
    ELSE LET li == CHOOSE x \in L : TRUE IN li.amount + C38_SumOfAmounts(L \ {li})

C38_LineItemsOfPayout(p) ==
    {li \in lineItems : li.batch = p.batch /\ li.consultant = p.consultant}

\* C38: in every reachable state, for every payout of a DRAFT, LOCKED or
\* RELEASED batch, total_commission is the sum of the amounts of the payout's
\* line items and net_amount is total_commission + total_adjustment -
\* total_tax.
C38_TotalsMatchLineItems ==
    \A p \in payouts :
        batch[p.batch].status \in {"DRAFT", "LOCKED", "RELEASED"}
        => /\ p.total_commission = C38_SumOfAmounts(C38_LineItemsOfPayout(p))
           /\ p.net_amount = p.total_commission + p.total_adjustment - p.total_tax

\* the rows of a consultant whose interval covers the date
C39_CoveringRows(who, d) ==
    {l \in dated_lines : /\ l.consultant = who
                         /\ l.start_date <= d
                         /\ (l.end_date = NoDate \/ l.end_date >= d)}

\* C39: after every sequence of assign-manager, change-manager and
\* deactivate-reporting-line requests, for every consultant and every date
\* at most one ReportingLine of the consultant covers the date.
C39_AtMostOneCovering ==
    \A who \in Staff, d \in Dates : Cardinality(C39_CoveringRows(who, d)) <= 1

====
